---- MODULE Spec2Model ----
(***************************************************************************)
(* Model of the crypto-trading-platform backtest core: the candle loop of  *)
(* BacktestEngine.run_backtest, the limit-order matcher, the grid-trading  *)
(* strategy object, the adaptive volatility classifier and the metrics     *)
(* calculator.                                                             *)
(*                                                                         *)
(* Python floats are modelled as exact rationals (rounding error of the    *)
(* IEEE arithmetic is not modelled).  A number is a record                 *)
(* [w, n, d] standing for w + n/d with w an integer, 0 <= n < d and        *)
(* n/d in lowest terms (d = 1 when n = 0), so that equal numbers are equal *)
(* records.                                                                *)
(***************************************************************************)
EXTENDS Integers, Sequences, FiniteSets, TLC

-----------------------------------------------------------------------------
(* Exact rational arithmetic                                               *)

RECURSIVE GCD(_, _)
GCD(a, b) == IF b = 0 THEN a ELSE GCD(b, a % b)

\* w + r/d, for 0 <= r < d and g the greatest common divisor of r and d
Reduced(w, r, d, g) == [w |-> w, n |-> r \div g, d |-> d \div g]

\* w + n/d in normal form, for integers w, n and d > 0
Norm(w, n, d) == Reduced(w + (n \div d), n % d, d, GCD(d, n % d))

\* a / b for integers a, b with b # 0
Frac(a, b) == IF b < 0 THEN Norm(0, -a, -b) ELSE Norm(0, a, b)

NI(k) == [w |-> k, n |-> 0, d |-> 1]

Zero == [w |-> 0, n |-> 0, d |-> 1]

\* x + y, for g the greatest common divisor of the two denominators
SumOver(x, y, g) ==
    Norm(x.w + y.w, x.n * (y.d \div g) + y.n * (x.d \div g), (x.d \div g) * y.d)

NAdd(x, y) == SumOver(x, y, GCD(x.d, y.d))

NNeg(x) ==
    IF x.n = 0 THEN [w |-> -x.w, n |-> 0, d |-> 1]
    ELSE [w |-> -x.w - 1, n |-> x.d - x.n, d |-> x.d]

NSub(x, y) == NAdd(x, NNeg(y))

\* (a/b) * (c/e) with g1 = gcd(a, e) and g2 = gcd(c, b) cancelled first
Cancelled(a, b, c, e, g1, g2) ==
    Norm(0, (a \div g1) * (c \div g2), (b \div g2) * (e \div g1))

\* (a/b) * (c/e) for proper fractions
FracMul(a, b, c, e) == Cancelled(a, b, c, e, GCD(a, e), GCD(c, b))

\* (x.w + x.n/x.d) * (y.w + y.n/y.d), term by term
NMul(x, y) ==
    NAdd(NAdd(Norm(x.w * y.w, x.w * y.n, y.d), Norm(0, y.w * x.n, x.d)),
         FracMul(x.n, x.d, y.n, y.d))

\* 1 / y for y # 0
NInv(y) == Frac(y.d, y.w * y.d + y.n)

NDiv(x, y) == NMul(x, NInv(y))

\* a/b <= c/e for proper fractions, by comparing continued fractions
\* (no products, so no overflow)
RECURSIVE FracLe(_, _, _, _)
FracLe(a, b, c, e) ==
    IF a = 0 THEN TRUE
    ELSE IF c = 0 THEN FALSE
    ELSE IF (b \div a) # (e \div c) THEN (b \div a) > (e \div c)
    ELSE FracLe(e % c, c, b % a, a)

NLe(x, y) == x.w < y.w \/ (x.w = y.w /\ FracLe(x.n, x.d, y.n, y.d))

NLt(x, y) == ~NLe(y, x)

NGe(x, y) == NLe(y, x)

NGt(x, y) == ~NLe(x, y)

NMin(x, y) == IF NLe(x, y) THEN x ELSE y

NMax(x, y) == IF NLe(x, y) THEN y ELSE x

NAbs(x) == IF x.w < 0 THEN NNeg(x) ELSE x

Percent(x) == NDiv(x, NI(100))

RECURSIVE SumSeq(_)
SumSeq(s) == IF s = <<>> THEN Zero ELSE NAdd(Head(s), SumSeq(Tail(s)))

\* a call that returned v
Returned(v) == [raised |-> FALSE, value |-> v]

\* Python float division: ZeroDivisionError for a zero divisor
PyDiv(x, y) ==
    IF y = Zero THEN [raised |-> TRUE, value |-> Zero] ELSE Returned(NDiv(x, y))

-----------------------------------------------------------------------------
(* Configuration: src/config_models.py and the test scenario of              *)
(* src/simple_backtest_test.py                                               *)

Symbol == "BTCUSDC"

\* BacktestConfig.initial_balance of the scenario
InitialBalance == 10000

\* BacktestConfig.maker_fee_percent (default), in percent
MakerFeePercent == Frac(1, 10)

\* BacktestConfig.slippage_percent (default), in percent
SlippagePercent == Frac(5, 100)

\* OrderExecutor.__init__: percentages are stored as fractions
MakerFee == Percent(MakerFeePercent)

Slippage == Percent(SlippagePercent)

\* share of the initial balance committed to one grid (run_backtest, step 3)
PositionFraction == Frac(1, 10)

\* analyze: market_data.calculate_volatility(period=20)
VolatilityPeriod == 20

\* analyze: threshold used when params has no min_volatility_threshold
DefaultMinVolThreshold == Frac(1, 10)

\* largest grid_levels explored
MaxGridLevels == 2

\* number of candles of the market data of one run
NumCandles == 3

\* Absent optional values (Python None) are empty sequences, present ones
\* one-element sequences.
None == <<>>

Some(v) == <<v>>

\* GridTradingParams: the fields the core reads.  min_volatility_threshold is
\* not a field of GridTradingParams; analyze reads it with hasattr.
Params(levels, thr) ==
    [grid_levels |-> levels,
     grid_spacing_percent |-> NI(1),
     take_profit_percent |-> NI(1),
     max_drawdown_percent |-> NI(1),
     min_volatility_threshold |-> thr]

EngineParamsChoices == {Params(l, None) : l \in 1..MaxGridLevels}

\* StrategyConfig: enable_long / enable_short, at least one of them set
\* (validate_strategy_config); long_params and short_params are the same
\* object, as in the test scenario.
StrategyConfigChoices ==
    {c \in [enable_long : BOOLEAN, enable_short : BOOLEAN, params : EngineParamsChoices] :
        c.enable_long \/ c.enable_short}

-----------------------------------------------------------------------------
(* Market data: src/data/data_models.py                                      *)

Candle(o, h, l, c) == [open |-> o, high |-> h, low |-> l, close |-> c]

\* Candle.__post_init__
ValidCandle(k) ==
    /\ k.low <= k.close /\ k.close <= k.high
    /\ k.low <= k.open /\ k.open <= k.high

CandleChoices ==
    {k \in {Candle(100, 100, 100, 100),
            Candle(100, 101, 100, 101),
            Candle(101, 101, 101, 101),
            Candle(101, 200, 101, 200),
            Candle(100, 100, 50, 50)} : ValidCandle(k)}

\* the candles of an engine run: those above and a candle at a twentieth of
\* their price
EngineCandleChoices == CandleChoices \cup {Candle(5, 5, 5, 5)}

\* MarketData.get_last_n_candles
GetLastNCandles(cs, n) ==
    IF n > 0
    THEN SubSeq(cs, IF Len(cs) > n THEN Len(cs) - n + 1 ELSE 1, Len(cs))
    ELSE <<>>

\* the returns of calculate_volatility: (close - previous close) / previous close
Returns(cs) ==
    [i \in 1..(Len(cs) - 1) |-> Frac(cs[i + 1].close - cs[i].close, cs[i].close)]

Squares(rs) == [i \in DOMAIN rs |-> NMul(rs[i], rs[i])]

\* len(returns)^2 * variance, for total = sum(returns): since
\* variance = sum((r - mean)^2) / n, this is n * sum(r^2) - sum(r)^2
ScaledVariance(rs, total) ==
    NSub(NMul(NI(Len(rs)), SumSeq(Squares(rs))), NMul(total, total))

\* sqrt(variance) * 100 >= thr for thr > 0 and t = thr / 100, both sides
\* squared and multiplied by len(returns)^2
ReturnsVolatilityAtLeast(rs, t) ==
    NGe(ScaledVariance(rs, SumSeq(rs)), NMul(NI(Len(rs) * Len(rs)), NMul(t, t)))

\* MarketData.calculate_volatility(period) >= thr; the volatility is 0.0 for
\* fewer than two candles and never negative
VolatilityAtLeast(cs, period, thr) ==
    IF NLe(thr, Zero) THEN TRUE
    ELSE IF Len(GetLastNCandles(cs, period + 1)) < 2 THEN FALSE
    ELSE ReturnsVolatilityAtLeast(Returns(GetLastNCandles(cs, period + 1)), Percent(thr))

-----------------------------------------------------------------------------
(* Orders and positions: src/data/data_models.py                             *)

\* Order(...) as built by generate_grid_orders; the fill fields keep their
\* dataclass defaults
NewOrder(tt, level, qty, price) ==
    [order_id |-> <<tt, level>>, symbol |-> Symbol, trade_type |-> tt,
     order_type |-> "LIMIT", quantity |-> qty, price |-> price,
     status |-> "PENDING", filled_quantity |-> Zero, filled_price |-> None]

\* Position(...) as built by run_backtest, step 2
NewPosition(tt, idx, price, qty, time) ==
    [position_id |-> <<tt, idx>>, symbol |-> Symbol, trade_type |-> tt,
     entry_price |-> price, quantity |-> qty, entry_time |-> time,
     entry_orders |-> <<>>]

\* Position.is_open
IsOpen(pos) == NGt(pos.quantity, Zero)

\* the price move in the direction of the position
PriceMove(pos, current_price) ==
    IF pos.trade_type = "LONG"
    THEN NSub(current_price, pos.entry_price)
    ELSE NSub(pos.entry_price, current_price)

\* Position.calculate_unrealized_pnl
CalculateUnrealizedPnl(pos, current_price) ==
    IF pos.quantity = Zero THEN Zero
    ELSE NMul(PriceMove(pos, current_price), pos.quantity)

\* Position.calculate_unrealized_pnl_percent without the factor 100: a
\* faulty variant, used to test the sensitivity of the take-profit property
PnlFraction(pos, current_price) ==
    IF pos.entry_price = Zero THEN Zero
    ELSE NDiv(PriceMove(pos, current_price), pos.entry_price)

\* Position.calculate_unrealized_pnl_percent
CalculateUnrealizedPnlPercent(pos, current_price) ==
    IF pos.entry_price = Zero THEN Zero
    ELSE NMul(NDiv(PriceMove(pos, current_price), pos.entry_price), NI(100))

-----------------------------------------------------------------------------
(* Grid trading strategy: src/strategies/grid_strategy.py                    *)

\* float('inf'), the initial current_min_price
Inf == [w |-> 0, n |-> 0, d |-> 0]

\* min(self.current_min_price, current_price)
MinPrice(m, price) == IF m = Inf THEN price ELSE NMin(m, price)

\* Strategy.__init__ and GridTradingStrategy.__init__; initialize_adaptive
\* leaves current_scaled None
NewStrategy(tt, params) ==
    [symbol |-> Symbol, trade_type |-> tt, state |-> "IDLE", position |-> None,
     entry_orders |-> <<>>, exit_orders |-> <<>>, current_scaled |-> None,
     params |-> params, grid_prices |-> <<>>, entry_signal_generated |-> FALSE,
     current_max_price |-> Zero, current_min_price |-> Inf]

\* a threshold of zero whatever the parameters: a faulty variant, used to
\* test the sensitivity of the flat-market property
ZeroThreshold(params) == Zero

\* analyze: params.min_volatility_threshold if the attribute exists, else 0.1
MinVolThreshold(params) ==
    IF params.min_volatility_threshold # None
    THEN params.min_volatility_threshold[1]
    ELSE DefaultMinVolThreshold

\* analyze: the signal appended, BUY for a LONG strategy and SELL for a SHORT
\* one (strength and rationale, which nothing reads, are left out)
EntrySignal(s) ==
    [signal_type |-> IF s.trade_type = "LONG" THEN "BUY" ELSE "SELL",
     symbol |-> s.symbol]

\* analyze without the latch of entry_signal_generated: a faulty variant,
\* used to test the sensitivity of the one-signal property
AnalyzeNoLatch(s, md) ==
    IF /\ s.state = "IDLE"
       /\ ~s.entry_signal_generated
       /\ VolatilityAtLeast(md, VolatilityPeriod, MinVolThreshold(s.params))
    THEN [strat |-> s, signals |-> <<EntrySignal(s)>>]
    ELSE [strat |-> s, signals |-> <<>>]

\* GridTradingStrategy.analyze: the strategy after the call and the signals
\* returned
Analyze(s, md) ==
    IF /\ s.state = "IDLE"
       /\ ~s.entry_signal_generated
       /\ VolatilityAtLeast(md, VolatilityPeriod, MinVolThreshold(s.params))
    THEN [strat |-> [s EXCEPT !.entry_signal_generated = TRUE],
          signals |-> <<EntrySignal(s)>>]
    ELSE [strat |-> s, signals |-> <<>>]

\* the grid spacing generate_grid_orders uses
GridSpacingPercent(s) ==
    IF s.current_scaled # None
    THEN s.current_scaled[1].grid_spacing_percent
    ELSE s.params.grid_spacing_percent

\* grid_spacing * level
GridOffset(s, level) == NMul(Percent(GridSpacingPercent(s)), NI(level))

\* grid prices counted from level 1, so that no order is placed at the
\* entry price: a faulty variant, used to test the sensitivity of the
\* grid-order property
GridPriceFromLevelOne(s, entry_price, level) ==
    NMul(entry_price, IF s.trade_type = "LONG"
                      THEN NSub(NI(1), GridOffset(s, level + 1))
                      ELSE NAdd(NI(1), GridOffset(s, level + 1)))

\* the price of the order at one grid level (level = 0 .. grid_levels - 1)
GridPrice(s, entry_price, level) ==
    NMul(entry_price, IF s.trade_type = "LONG"
                      THEN NSub(NI(1), GridOffset(s, level))
                      ELSE NAdd(NI(1), GridOffset(s, level)))

\* the orders of generate_grid_orders, one per level
GridOrders(s, entry_price, size_per_order) ==
    [i \in 1..s.params.grid_levels |->
        NewOrder(s.trade_type, i - 1, size_per_order, GridPrice(s, entry_price, i - 1))]

OrderPrices(orders) == [i \in DOMAIN orders |-> orders[i].price]

\* the strategy after generate_grid_orders (grid_prices grows) and the orders
WithGridOrders(s, orders) ==
    [strat |-> [s EXCEPT !.grid_prices = @ \o OrderPrices(orders)], orders |-> orders]

\* GridTradingStrategy.generate_grid_orders
GenerateGridOrders(s, entry_price, position_size, current_price) ==
    WithGridOrders(s, GridOrders(s, entry_price,
                                 NDiv(position_size, NI(s.params.grid_levels))))

ExitSignal(s, why) == [signal_type |-> "EXIT", symbol |-> s.symbol, rationale |-> why]

TakeProfitPercent(s) ==
    IF s.current_scaled # None
    THEN s.current_scaled[1].take_profit_percent
    ELSE s.params.take_profit_percent

MaxDrawdownPercent(s) ==
    IF s.current_scaled # None
    THEN s.current_scaled[1].max_drawdown_percent
    ELSE s.params.max_drawdown_percent

\* check_exit_conditions: track price extremes
TrackExtremes(s, current_price) ==
    [s EXCEPT !.current_max_price = NMax(@, current_price),
              !.current_min_price = MinPrice(@, current_price)]

\* check_exit_conditions: the stop-loss test, made only for a position that
\* has entry orders
StopLossReached(s, pos, current_price, account_equity) ==
    /\ pos.entry_orders # <<>>
    /\ NGe(NAbs(CalculateUnrealizedPnl(pos, current_price)),
           NMul(account_equity, Percent(MaxDrawdownPercent(s))))

\* check_exit_conditions without the take-profit test: a faulty variant,
\* used to test the sensitivity of the take-profit property
ExitDecisionStopLossOnly(s, pos, current_price, account_equity) ==
    IF StopLossReached(s, pos, current_price, account_equity)
    THEN Some(ExitSignal(s, "stop_loss"))
    ELSE None

\* check_exit_conditions: take profit first, then stop loss
ExitDecision(s, pos, current_price, account_equity) ==
    IF NGe(CalculateUnrealizedPnlPercent(pos, current_price), TakeProfitPercent(s))
    THEN Some(ExitSignal(s, "take_profit"))
    ELSE IF StopLossReached(s, pos, current_price, account_equity)
    THEN Some(ExitSignal(s, "stop_loss"))
    ELSE None

\* check_exit_conditions: "if pos is None or not pos.is_open"
NoOpenPosition(pos) == pos = None \/ ~IsOpen(pos[1])

\* check_exit_conditions for pos = position or self.position; without an
\* open position the call returns None, and no path of it raises
CheckPosition(s, pos, current_price, account_equity) ==
    IF NoOpenPosition(pos)
    THEN [strat |-> s, signal |-> None, raised |-> FALSE]
    ELSE [strat |-> TrackExtremes(s, current_price),
          signal |-> ExitDecision(s, pos[1], current_price, account_equity),
          raised |-> FALSE]

\* GridTradingStrategy.check_exit_conditions: the strategy after the call
\* (the price extremes move) and the signal returned, None or one signal
CheckExitConditions(s, current_price, account_equity, position) ==
    CheckPosition(s, IF position # None THEN position ELSE s.position,
                  current_price, account_equity)

\* reset that leaves entry_signal_generated as it is: a faulty variant, used
\* to test the sensitivity of the signal-after-reset property
ResetKeepsFlag(s) ==
    [s EXCEPT !.state = "IDLE", !.position = None,
              !.entry_orders = <<>>, !.exit_orders = <<>>]

\* reset that leaves state as it is: a faulty variant, used to test the
\* sensitivity of the reset property
ResetKeepsState(s) ==
    [s EXCEPT !.position = None, !.entry_signal_generated = FALSE,
              !.entry_orders = <<>>, !.exit_orders = <<>>]

\* Strategy.reset
Reset(s) ==
    [s EXCEPT !.state = "IDLE", !.position = None, !.entry_signal_generated = FALSE,
              !.entry_orders = <<>>, !.exit_orders = <<>>]

\* Position.add_entry_order
AddEntryOrder(pos, order) ==
    IF order.filled_quantity = Zero THEN pos
    ELSE [pos EXCEPT
            !.quantity = NAdd(@, order.filled_quantity),
            !.entry_price =
                IF NGt(NAdd(pos.quantity, order.filled_quantity), Zero)
                THEN NDiv(NAdd(NMul(pos.quantity, pos.entry_price),
                               NMul(order.filled_quantity, order.filled_price[1])),
                          NAdd(pos.quantity, order.filled_quantity))
                ELSE Zero,
            !.entry_orders = Append(@, order)]

RECURSIVE AddEntryOrders(_, _)
AddEntryOrders(pos, orders) ==
    IF orders = <<>> THEN pos
    ELSE AddEntryOrders(AddEntryOrder(pos, Head(orders)), Tail(orders))

\* MarketData.latest_close or 0.0
LatestClose(md) == IF md = <<>> THEN Zero ELSE NI(md[Len(md)].close)

\* update_state: price extremes follow while the position is open, and an
\* IDLE strategy becomes ACTIVE
AfterFills(s, current_price) ==
    [s EXCEPT !.current_max_price =
                  IF s.position # None /\ IsOpen(s.position[1])
                  THEN NMax(@, current_price) ELSE @,
              !.current_min_price =
                  IF s.position # None /\ IsOpen(s.position[1])
                  THEN MinPrice(@, current_price) ELSE @,
              !.state = IF @ = "IDLE" THEN "ACTIVE" ELSE @]

\* GridTradingStrategy.update_state: the strategy after the call and whether
\* the call raised.  With filled orders and no position the call builds
\* Position(...) without entry_price and quantity, which raises TypeError
\* before anything is changed.
UpdateState(s, md, fills) ==
    IF fills # <<>> /\ s.position = None
    THEN [strat |-> s, raised |-> TRUE]
    ELSE IF fills # <<>>
    THEN [strat |-> AfterFills([s EXCEPT
                        !.position = Some(AddEntryOrders(@[1], fills)),
                        !.entry_orders = @ \o fills], LatestClose(md)),
          raised |-> FALSE]
    ELSE [strat |-> AfterFills(s, LatestClose(md)), raised |-> FALSE]

-----------------------------------------------------------------------------
(* Order execution simulator: src/core/backtest_engine.py, OrderExecutor     *)

\* the fill test with strict comparisons: a faulty variant, used to test the
\* sensitivity of the fill-boundary property
StrictLimitOrderFills(order, candle) ==
    IF order.trade_type = "LONG"
    THEN NLt(NI(candle.low), order.price)
    ELSE NGt(NI(candle.high), order.price)

\* whether execute_limit_order fills the order against the candle
LimitOrderFills(order, candle) ==
    IF order.trade_type = "LONG"
    THEN NLe(NI(candle.low), order.price)
    ELSE NGe(NI(candle.high), order.price)

\* a fill at the limit price whatever the close: a faulty variant, used to
\* test the sensitivity of the fill-price property
FillPriceAtLimit(order, candle) ==
    IF order.trade_type = "LONG"
    THEN NMul(order.price, NAdd(NI(1), Slippage))
    ELSE NMul(order.price, NSub(NI(1), Slippage))

\* execute_limit_order: the fill price, slippage applied
FillPrice(order, candle) ==
    IF order.trade_type = "LONG"
    THEN NMul(NMin(order.price, NI(candle.close)), NAdd(NI(1), Slippage))
    ELSE NMul(NMax(order.price, NI(candle.close)), NSub(NI(1), Slippage))

\* OrderExecutor.execute_limit_order: (filled_quantity, fill_price)
ExecuteLimitOrder(order, candle) ==
    IF LimitOrderFills(order, candle)
    THEN <<order.quantity, FillPrice(order, candle)>>
    ELSE <<Zero, Zero>>

\* OrderExecutor.calculate_commission with is_maker=True
CalculateCommission(quantity, price) == NMul(NMul(quantity, price), MakerFee)

-----------------------------------------------------------------------------
(* Backtest engine: src/core/backtest_engine.py, BacktestEngine.run_backtest *)
(* for one symbol.  One iteration of the candle loop is five steps, taken in *)
(* the order of the code: match, fills, long, short, exit, save.             *)

VARIABLES
    market_data,        \* the candles of the symbol
    strategy_config,    \* the StrategyConfig of the symbol
    candle_idx,         \* loop index, 0-based
    pc,                 \* the step of the loop body to run next
    portfolio,          \* the PortfolioState object of the run
    pending_orders,     \* pending_orders[symbol]
    filled_orders,      \* filled_orders of the current candle
    long_strat,         \* the LONG strategy object or None
    short_strat,        \* the SHORT strategy object or None
    signals,            \* what analyze returned last
    exit_signal,        \* what check_exit_conditions returned for this candle
    portfolio_history,  \* engine.portfolio_history
    all_trades,         \* engine.all_trades
    metrics,            \* the BacktestMetrics run_backtest returns, or None
    closed_pending      \* history: pending_orders as the last close of a position left them

VARIABLES
    strat,              \* a strategy object driven through its public methods
    prev_strat,         \* that object before the last call
    history             \* the calls made on it, oldest first

VARIABLES
    adaptive_config,      \* the AdaptiveParameterConfig of the engine
    composite_volatility, \* what _calculate_composite_volatility returned
    volatility_level,     \* what _classify_volatility returned, or None
    scaled_parameters     \* the outcome of scale_parameters, or None

VARIABLES
    trades,             \* the profit_loss of each TradeMetrics of a list
    profit_factor       \* what calculate_profit_factor returned, or None

engine_vars == <<market_data, strategy_config, candle_idx, pc, portfolio, pending_orders,
                 filled_orders, long_strat, short_strat, signals, exit_signal,
                 portfolio_history, all_trades, metrics, closed_pending>>

strategy_vars == <<strat, prev_strat, history>>

adaptive_vars == <<adaptive_config, composite_volatility, volatility_level,
                   scaled_parameters>>

metrics_vars == <<trades, profit_factor>>

VARIABLES
    core_position,      \* a core.position.Position object
    prev_position,      \* that object before the last call made on it
    position_calls,     \* the calls made on it, oldest first
    clock,              \* datetime.now()
    constructed         \* the last Order(...) construction, or None

core_vars == <<core_position, prev_position, position_calls, clock, constructed>>

VARIABLES
    returns,            \* a list of period returns
    ratios,             \* the Sharpe and Sortino ratios computed for it, or None
    calmar,             \* the last calculate_calmar_ratio call, or None
    equity_curve,       \* a list of account equity values
    drawdown            \* what calculate_drawdown gave for it, or None

ratio_vars == <<returns, ratios, calmar, equity_curve, drawdown>>

VARIABLES
    vol_calc,           \* a VolatilityCalculator object
    measures,           \* the VolatilityMeasures its last update returned, or None
    fed                 \* the candles passed to update so far, in arrival order

volatility_vars == <<vol_calc, measures, fed>>

VARIABLES
    core_order,         \* a core.order_executor.Order object
    prev_order,         \* that object before the last call made on it
    order_calls         \* the calls made on it, oldest first

order_vars == <<core_order, prev_order, order_calls>>

vars == <<engine_vars, strategy_vars, adaptive_vars, metrics_vars, core_vars, ratio_vars,
          volatility_vars,
      order_vars>>

\* the parts of the state an engine run does not touch
EngineFrame == <<strategy_vars, adaptive_vars, metrics_vars, core_vars, ratio_vars,
                 volatility_vars,
      order_vars>>

CurrentCandle == market_data[candle_idx + 1]

\* Candle.timestamp of the candle at a loop index
Timestamp(idx) == idx

\* PortfolioState(timestamp=0.0, cash_balance=initial_balance)
NewPortfolio ==
    [cash_balance |-> NI(InitialBalance), positions |-> <<>>, closed_trades |-> <<>>,
     total_fees |-> Zero]

\* sum of calculate_unrealized_pnl(price) over portfolio.positions
UnrealizedPnlAt(p, price) ==
    IF Symbol \in DOMAIN p.positions
    THEN CalculateUnrealizedPnl(p.positions[Symbol], price)
    ELSE Zero

\* PortfolioState.total_equity: positions are valued at price 0.0
TotalEquity(p) == NAdd(p.cash_balance, UnrealizedPnlAt(p, Zero))

\* one entry of filled_orders: (order, filled_qty, fill_price)
Fill(order, executed) ==
    [order |-> order, filled_qty |-> executed[1], fill_price |-> executed[2]]

FillOf(order, candle) == Fill(order, ExecuteLimitOrder(order, candle))

\* run_backtest step 1: filled_qty > 0
IsFilled(f) == NGt(f.filled_qty, Zero)

FillIfAny(f) == IF IsFilled(f) THEN <<f>> ELSE <<>>

\* run_backtest step 1: filled_orders, in the order of pending_orders
RECURSIVE FilledOrders(_, _)
FilledOrders(orders, candle) ==
    IF orders = <<>> THEN <<>>
    ELSE FillIfAny(FillOf(Head(orders), candle)) \o FilledOrders(Tail(orders), candle)

\* remaining_orders that keeps the filled orders too: a faulty variant, used
\* to test the sensitivity of the pending-order property
RemainingOrdersKeepsFilled(orders, candle) == orders

\* run_backtest step 1: remaining_orders
RECURSIVE RemainingOrders(_, _)
RemainingOrders(orders, candle) ==
    IF orders = <<>> THEN <<>>
    ELSE (IF IsFilled(FillOf(Head(orders), candle)) THEN <<>> ELSE <<Head(orders)>>)
         \o RemainingOrders(Tail(orders), candle)

\* run_backtest step 2: the commission of a fill is added to total_fees and
\* taken from cash
PayCommission(p, commission) ==
    [p EXCEPT !.total_fees = NAdd(@, commission),
              !.cash_balance = NSub(@, commission)]

\* run_backtest step 2: a fill averaged into the existing position
AveragedInto(pos, f, total_qty) ==
    [pos EXCEPT !.entry_price = NDiv(NAdd(NMul(pos.entry_price, pos.quantity),
                                          NMul(f.fill_price, f.filled_qty)),
                                     total_qty),
                !.quantity = total_qty]

\* run_backtest step 2: create or update the position of the symbol
OpenOrAverage(p, f, idx) ==
    IF Symbol \notin DOMAIN p.positions
    THEN [p EXCEPT !.positions =
              Symbol :> NewPosition(f.order.trade_type, idx, f.fill_price, f.filled_qty,
                                    Timestamp(idx))]
    ELSE [p EXCEPT !.positions[Symbol] =
              AveragedInto(@, f, NAdd(@.quantity, f.filled_qty))]

\* run_backtest step 2: deduct from cash
DeductCost(p, f) ==
    [p EXCEPT !.cash_balance = NSub(@, NMul(f.filled_qty, f.fill_price))]

\* run_backtest step 2, for one filled order
ApplyFill(p, f, idx) ==
    DeductCost(OpenOrAverage(PayCommission(p, CalculateCommission(f.filled_qty,
                                                                  f.fill_price)),
                             f, idx),
               f)

RECURSIVE ApplyFills(_, _, _)
ApplyFills(p, fills, idx) ==
    IF fills = <<>> THEN p
    ELSE ApplyFills(ApplyFill(p, Head(fills), idx), Tail(fills), idx)

\* run_backtest step 4: Trade(...)
TradeRecord(position, current_price, idx, pnl, commission) ==
    [trade_id |-> <<position.trade_type, idx>>, symbol |-> Symbol,
     entry_price |-> position.entry_price, exit_price |-> current_price,
     quantity |-> position.quantity, entry_time |-> position.entry_time,
     exit_time |-> Timestamp(idx), pnl |-> pnl,
     pnl_after_commission |-> NSub(pnl, commission),
     pnl_percent |-> IF NGt(position.entry_price, Zero)
                     THEN NMul(NDiv(pnl, NMul(position.entry_price, position.quantity)),
                               NI(100))
                     ELSE Zero]

\* run_backtest step 4: the Trade recorded when a position is closed
NewTrade(position, current_price, idx) ==
    TradeRecord(position, current_price, idx,
                NMul(PriceMove(position, current_price), position.quantity),
                CalculateCommission(position.quantity, current_price))

\* a close that leaves the position in portfolio.positions: a faulty variant,
\* used to test the sensitivity of the one-trade-per-close property
ClosedKeepsPosition(p, proceeds, commission, trade) ==
    [p EXCEPT !.total_fees = NAdd(@, commission),
              !.cash_balance = NAdd(@, NSub(proceeds, commission)),
              !.closed_trades = Append(@, trade)]

\* run_backtest step 4: fees, cash, closed_trades and positions after a close
Closed(p, proceeds, commission, trade) ==
    [p EXCEPT !.total_fees = NAdd(@, commission),
              !.cash_balance = NAdd(@, NSub(proceeds, commission)),
              !.closed_trades = Append(@, trade),
              !.positions = <<>>]

\* run_backtest step 4: the portfolio after closing the position of the
\* symbol, LONG or SHORT alike
ClosePosition(p, position, current_price, trade) ==
    Closed(p, NMul(position.quantity, current_price),
           CalculateCommission(position.quantity, current_price), trade)

\* the strategy that run_backtest asks for the exit of a position
ExitStrategy(position) ==
    IF position.trade_type = "LONG" /\ long_strat # None THEN long_strat
    ELSE IF position.trade_type = "SHORT" /\ short_strat # None THEN short_strat
    ELSE None

\* the strategy-object, classifier and metrics parts of the state, at rest
StrategyOff == strat = None /\ prev_strat = None /\ history = <<>>

AdaptiveOff ==
    /\ adaptive_config = None /\ composite_volatility = None
    /\ volatility_level = None /\ scaled_parameters = None

MetricsOff == trades = <<>> /\ profit_factor = None

\* the core objects part of the state, at rest
CoreOff ==
    /\ core_position = None /\ prev_position = None /\ position_calls = <<>>
    /\ clock = 0 /\ constructed = None

\* the ratio and volatility-calculator parts of the state, at rest
RatiosOff ==
    /\ returns = <<>> /\ ratios = None /\ calmar = None
    /\ equity_curve = <<>> /\ drawdown = None

VolatilityOff == vol_calc = None /\ measures = None /\ fed = <<>>

OrderOff == core_order = None /\ prev_order = None /\ order_calls = <<>>

\* the engine part of the state, at rest
EngineOff ==
    /\ market_data = <<>>
    /\ strategy_config = None
    /\ candle_idx = 0
    /\ pc = "done"
    /\ portfolio = NewPortfolio
    /\ pending_orders = <<>>
    /\ filled_orders = <<>>
    /\ long_strat = None
    /\ short_strat = None
    /\ signals = <<>>
    /\ exit_signal = None
    /\ portfolio_history = <<>>
    /\ all_trades = <<>>
    /\ metrics = None
    /\ closed_pending = <<>>

\* BacktestEngine.__init__ and the start of run_backtest
Init ==
    /\ market_data \in [1..NumCandles -> EngineCandleChoices]
    /\ strategy_config \in StrategyConfigChoices
    /\ candle_idx = 0
    /\ pc = "match"
    /\ portfolio = NewPortfolio
    /\ pending_orders = <<>>
    /\ filled_orders = <<>>
    /\ long_strat = IF strategy_config.enable_long
                    THEN Some(NewStrategy("LONG", strategy_config.params)) ELSE None
    /\ short_strat = IF strategy_config.enable_short
                     THEN Some(NewStrategy("SHORT", strategy_config.params)) ELSE None
    /\ signals = <<>>
    /\ exit_signal = None
    /\ portfolio_history = <<>>
    /\ all_trades = <<>>
    /\ metrics = None
    /\ closed_pending = <<>>
    /\ StrategyOff /\ AdaptiveOff /\ MetricsOff /\ CoreOff /\ RatiosOff /\ VolatilityOff
    /\ OrderOff

\* step 1: check pending orders for fills
MatchPendingOrders ==
    /\ pc = "match"
    /\ filled_orders' = FilledOrders(pending_orders, CurrentCandle)
    /\ pending_orders' = RemainingOrders(pending_orders, CurrentCandle)
    /\ pc' = "fills"
    /\ UNCHANGED <<market_data, strategy_config, candle_idx, portfolio, long_strat,
                   short_strat, signals, exit_signal, portfolio_history, all_trades,
                   metrics, closed_pending>>
    /\ UNCHANGED EngineFrame

\* step 2: process filled orders, update positions
ProcessFilledOrders ==
    /\ pc = "fills"
    /\ portfolio' = ApplyFills(portfolio, filled_orders, candle_idx)
    /\ pc' = "long"
    /\ UNCHANGED <<market_data, strategy_config, candle_idx, pending_orders, filled_orders,
                   long_strat, short_strat, signals, exit_signal, portfolio_history,
                   all_trades, metrics, closed_pending>>
    /\ UNCHANGED EngineFrame

\* step 3: the grid orders generated on a signal; 10% of the initial balance
\* at the close of the candle
EntryOrders(s, candle) ==
    GenerateGridOrders(s, NI(candle.close),
                       NDiv(NMul(NI(InitialBalance), PositionFraction), NI(candle.close)),
                       NI(candle.close))

\* step 3: the strategy, the signals and the new pending orders after a signal
Entered(analyzed, generated) ==
    [strat |-> Some(generated.strat), signals |-> analyzed.signals,
     orders |-> generated.orders]

\* step 3: "if signals:" after analyze
AfterAnalyze(analyzed, candle) ==
    IF analyzed.signals # <<>>
    THEN Entered(analyzed, EntryOrders(analyzed.strat, candle))
    ELSE [strat |-> Some(analyzed.strat), signals |-> <<>>, orders |-> <<>>]

\* step 3 for one strategy: analyze and, on a signal, generate the grid
\* orders; the strategy after the step and the orders added
EntryStep(s, candle) ==
    IF s # None /\ s[1].position = None
    THEN AfterAnalyze(Analyze(s[1], market_data), candle)
    ELSE [strat |-> s, signals |-> <<>>, orders |-> <<>>]

\* step 3: pending_orders[symbol].extend(grid_orders)
ExtendPending(entry) ==
    /\ signals' = entry.signals
    /\ pending_orders' = pending_orders \o entry.orders

AnalyzeLongWith(entry) == long_strat' = entry.strat /\ ExtendPending(entry)

AnalyzeShortWith(entry) == short_strat' = entry.strat /\ ExtendPending(entry)

\* step 3, LONG strategy
AnalyzeLong ==
    /\ pc = "long"
    /\ AnalyzeLongWith(EntryStep(long_strat, CurrentCandle))
    /\ pc' = "short"
    /\ UNCHANGED <<market_data, strategy_config, candle_idx, portfolio, filled_orders,
                   short_strat, exit_signal, portfolio_history, all_trades, metrics,
                   closed_pending>>
    /\ UNCHANGED EngineFrame

\* step 3, SHORT strategy
AnalyzeShort ==
    /\ pc = "short"
    /\ AnalyzeShortWith(EntryStep(short_strat, CurrentCandle))
    /\ pc' = "exit"
    /\ UNCHANGED <<market_data, strategy_config, candle_idx, portfolio, filled_orders,
                   long_strat, exit_signal, portfolio_history, all_trades, metrics,
                   closed_pending>>
    /\ UNCHANGED EngineFrame

\* step 4: "if exit_signal:" closes the position and records the trade
ExitWith(position, checked, trade, current_price) ==
    /\ IF position.trade_type = "LONG"
       THEN long_strat' = Some(checked.strat) /\ UNCHANGED short_strat
       ELSE short_strat' = Some(checked.strat) /\ UNCHANGED long_strat
    /\ exit_signal' = checked.signal
    /\ IF checked.signal # None
       THEN /\ portfolio' = ClosePosition(portfolio, position, current_price, trade)
            /\ all_trades' = Append(all_trades, trade)
            /\ closed_pending' = pending_orders
       ELSE UNCHANGED <<portfolio, all_trades, closed_pending>>

\* step 4 for the open position of the symbol
ExitStep(position, current_price) ==
    ExitWith(position,
             CheckExitConditions(ExitStrategy(position)[1], current_price,
                                 TotalEquity(portfolio), Some(position)),
             NewTrade(position, current_price, candle_idx),
             current_price)

\* step 4: check exit conditions and close the position on an exit signal
CheckExit ==
    /\ pc = "exit"
    /\ pc' = "save"
    /\ IF /\ Symbol \in DOMAIN portfolio.positions
          /\ ExitStrategy(portfolio.positions[Symbol]) # None
       THEN ExitStep(portfolio.positions[Symbol], NI(CurrentCandle.close))
       ELSE /\ exit_signal' = None
            /\ UNCHANGED <<portfolio, all_trades, long_strat, short_strat, closed_pending>>
    /\ UNCHANGED <<market_data, strategy_config, candle_idx, pending_orders, filled_orders,
                   signals, portfolio_history, metrics>>
    /\ UNCHANGED EngineFrame

RECURSIVE WinningPnls(_)
\* [t.pnl_after_commission for t in trades if t.is_profitable]
WinningPnls(ts) ==
    IF ts = <<>> THEN <<>>
    ELSE (IF NGt(Head(ts).pnl_after_commission, Zero)
          THEN <<Head(ts).pnl_after_commission>> ELSE <<>>) \o WinningPnls(Tail(ts))

RECURSIVE LosingPnls(_)
\* [abs(t.pnl_after_commission) for t in trades if not t.is_profitable]
LosingPnls(ts) ==
    IF ts = <<>> THEN <<>>
    ELSE (IF NGt(Head(ts).pnl_after_commission, Zero)
          THEN <<>> ELSE <<NAbs(Head(ts).pnl_after_commission)>>) \o LosingPnls(Tail(ts))

\* average_win and average_loss: 0.0 unless the list has entries
AverageOf(pnls) == IF pnls = <<>> THEN Zero ELSE NDiv(SumSeq(pnls), NI(Len(pnls)))

\* _calculate_metrics: profit_factor keeps its default 0.0 unless
\* average_loss > 0 and sum(losing_pnls) > 0
EngineProfitFactor(winning_pnls, losing_pnls) ==
    IF NGt(AverageOf(losing_pnls), Zero) /\ NGt(SumSeq(losing_pnls), Zero)
    THEN NDiv(SumSeq(winning_pnls), SumSeq(losing_pnls))
    ELSE Zero

\* _calculate_metrics: ((final_balance - initial_balance) / initial_balance) * 100,
\* multiplied before it is divided, which keeps the denominators small and
\* gives the same number
TotalReturnPercent(final_portfolio) ==
    NDiv(NMul(NSub(TotalEquity(final_portfolio), NI(InitialBalance)), NI(100)),
         NI(InitialBalance))

\* _calculate_metrics for a trade list that is not empty (the best and worst
\* trade and the average duration, which nothing reads, are left out)
MetricsOf(final_portfolio, ts, winning_pnls, losing_pnls) ==
    [total_trades |-> Len(ts),
     winning_trades |-> Len(winning_pnls),
     losing_trades |-> Len(ts) - Len(winning_pnls),
     win_rate |-> NMul(Frac(Len(winning_pnls), Len(ts)), NI(100)),
     average_win |-> AverageOf(winning_pnls),
     average_loss |-> AverageOf(losing_pnls),
     profit_factor |-> EngineProfitFactor(winning_pnls, losing_pnls),
     total_return_percent |-> TotalReturnPercent(final_portfolio)]

\* BacktestEngine._calculate_metrics
CalculateMetrics(final_portfolio, ts) ==
    IF ts = <<>>
    THEN [total_trades |-> 0, winning_trades |-> 0, losing_trades |-> 0,
          win_rate |-> Zero, average_win |-> Zero, average_loss |-> Zero,
          profit_factor |-> Zero, total_return_percent |-> Zero]
    ELSE MetricsOf(final_portfolio, ts, WinningPnls(ts), LosingPnls(ts))

\* step 5: save portfolio state (the list keeps a reference to the one
\* portfolio object of the run, not a copy) and move to the next candle;
\* after the last candle, calculate the final metrics
SavePortfolioState ==
    /\ pc = "save"
    /\ portfolio_history' = Append(portfolio_history, "portfolio")
    /\ candle_idx' = candle_idx + 1
    /\ pc' = IF candle_idx + 1 < Len(market_data) THEN "match" ELSE "done"
    /\ metrics' = IF candle_idx + 1 < Len(market_data) THEN metrics
                  ELSE Some(CalculateMetrics(portfolio, all_trades))
    /\ UNCHANGED <<market_data, strategy_config, portfolio, pending_orders, filled_orders,
                   long_strat, short_strat, signals, exit_signal, all_trades,
                   closed_pending>>
    /\ UNCHANGED EngineFrame

Next ==
    \/ MatchPendingOrders
    \/ ProcessFilledOrders
    \/ AnalyzeLong
    \/ AnalyzeShort
    \/ CheckExit
    \/ SavePortfolioState

Spec == Init /\ [][Next]_vars

\* most calls of run_backtest on one BacktestEngine explored
MaxRuns == 2

\* a further call of run_backtest on the same engine, with the same
\* arguments, once the call before has returned: strategies, portfolio and
\* pending_orders are created anew; portfolio_history and all_trades are
\* attributes of the engine, set in __init__ only
RunBacktestAgain ==
    /\ pc = "done"
    /\ Len(portfolio_history) < MaxRuns * Len(market_data)
    /\ candle_idx' = 0
    /\ pc' = "match"
    /\ portfolio' = NewPortfolio
    /\ pending_orders' = <<>>
    /\ filled_orders' = <<>>
    /\ long_strat' = IF strategy_config.enable_long
                     THEN Some(NewStrategy("LONG", strategy_config.params)) ELSE None
    /\ short_strat' = IF strategy_config.enable_short
                      THEN Some(NewStrategy("SHORT", strategy_config.params)) ELSE None
    /\ signals' = <<>>
    /\ exit_signal' = None
    /\ metrics' = None
    /\ closed_pending' = <<>>
    /\ UNCHANGED <<market_data, strategy_config, portfolio_history, all_trades>>
    /\ UNCHANGED EngineFrame

RunsNext == Next \/ RunBacktestAgain

SpecRuns == Init /\ [][RunsNext]_vars

-----------------------------------------------------------------------------
(* A GridTradingStrategy object driven through its public methods in any     *)
(* order: src/strategies/grid_strategy.py                                    *)

\* largest number of calls made on the strategy object
MaxCalls == 4

\* parameters without and with a min_volatility_threshold attribute
StrategyParamsChoices == {Params(1, None), Params(1, Some(NI(1)))}

FlatCandle == Candle(100, 100, 100, 100)

\* market data handed to analyze and update_state: no candle at all, or a
\* flat market followed by one candle of CandleChoices
StrategyMarketChoices ==
    {<<>>} \cup {[i \in 1..NumCandles |-> IF i < NumCandles THEN FlatCandle ELSE k] :
                    k \in CandleChoices}

\* prices handed to check_exit_conditions
PriceChoices == {NI(k.close) : k \in CandleChoices}

\* the entry price handed to generate_grid_orders
GridEntryChoices == {NI(FlatCandle.close)}

\* an order whose fill fields have been set
FilledOrder(tt) ==
    [NewOrder(tt, 0, NI(10), NI(100)) EXCEPT
        !.status = "FILLED", !.filled_quantity = NI(10), !.filled_price = Some(NI(100))]

\* positions handed to check_exit_conditions: none, an open one without and
\* with entry orders, and one without quantity
ExitPositionChoices(tt) ==
    {None,
     Some(NewPosition(tt, 0, NI(100), NI(10), 0)),
     Some([NewPosition(tt, 0, NI(100), NI(10), 0) EXCEPT !.entry_orders = <<FilledOrder(tt)>>]),
     Some(NewPosition(tt, 0, NI(100), Zero, 0))}

\* one entry of the call history
Call(op, volatile, signalled, raised) ==
    [op |-> op, volatile |-> volatile, signalled |-> signalled, raised |-> raised]

StrategyInit ==
    /\ strat \in {NewStrategy(tt, p) : tt \in {"LONG", "SHORT"}, p \in StrategyParamsChoices}
    /\ prev_strat = None
    /\ history = <<>>
    /\ EngineOff /\ AdaptiveOff /\ MetricsOff /\ CoreOff /\ RatiosOff /\ VolatilityOff
    /\ OrderOff

\* a call that leaves the strategy object as `after`
Called(after, entry) ==
    /\ strat' = after
    /\ prev_strat' = Some(strat)
    /\ history' = Append(history, entry)
    /\ UNCHANGED <<engine_vars, adaptive_vars, metrics_vars, core_vars, ratio_vars,
                   volatility_vars,
      order_vars>>

AnalyzeCalled(analyzed, volatile) ==
    Called(analyzed.strat, Call("analyze", volatile, analyzed.signals # <<>>, FALSE))

\* strategy.analyze(market_data)
CallAnalyze ==
    /\ Len(history) < MaxCalls
    /\ \E md \in StrategyMarketChoices :
          AnalyzeCalled(Analyze(strat, md),
                        VolatilityAtLeast(md, VolatilityPeriod, MinVolThreshold(strat.params)))

\* strategy.generate_grid_orders(entry_price, position_size, current_price)
CallGenerateGridOrders ==
    /\ Len(history) < MaxCalls
    /\ \E price \in GridEntryChoices :
          Called(GenerateGridOrders(strat, price, NI(10), price).strat,
                 Call("generate_grid_orders", FALSE, FALSE, FALSE))

\* the history entry of a check_exit_conditions call: whether it was made
\* without an open position and whether it raised
ExitCheckCall(no_position, checked) ==
    [op |-> "check_exit_conditions", volatile |-> FALSE, signalled |-> FALSE,
     raised |-> checked.raised, no_position |-> no_position]

ExitCheckCalled(no_position, checked) ==
    Called(checked.strat, ExitCheckCall(no_position, checked))

\* strategy.check_exit_conditions(current_price, account_equity, position)
CallCheckExitConditions ==
    /\ Len(history) < MaxCalls
    /\ \E price \in PriceChoices, position \in ExitPositionChoices(strat.trade_type) :
          ExitCheckCalled(NoOpenPosition(IF position # None THEN position
                                         ELSE strat.position),
                          CheckExitConditions(strat, price, NI(InitialBalance), position))

UpdateStateCalled(updated) ==
    Called(updated.strat, Call("update_state", FALSE, FALSE, updated.raised))

\* strategy.update_state(market_data, filled_orders)
CallUpdateState ==
    /\ Len(history) < MaxCalls
    /\ \E md \in StrategyMarketChoices, fills \in {<<>>, <<FilledOrder(strat.trade_type)>>} :
          UpdateStateCalled(UpdateState(strat, md, fills))

\* strategy.reset()
CallReset ==
    /\ Len(history) < MaxCalls
    /\ Called(Reset(strat), Call("reset", FALSE, FALSE, FALSE))

StrategyNext ==
    \/ CallAnalyze
    \/ CallGenerateGridOrders
    \/ CallCheckExitConditions
    \/ CallUpdateState
    \/ CallReset

SpecStrategy == StrategyInit /\ [][StrategyNext]_vars

\* largest number of check_exit_conditions calls explored with the wider
\* arguments below
MaxExitChecks == 2

\* prices handed to check_exit_conditions: those above and one half a
\* percent above the entry price of the positions
ExitCheckPrices == PriceChoices \cup {Frac(201, 2)}

\* account_equity handed to check_exit_conditions: the initial balance and a
\* tenth of the value of the positions
AccountEquityChoices == {NI(InitialBalance), NI(100)}

\* the history entry of a check_exit_conditions call with its price, its
\* position and the signal it returned
ExitChecked(price, position, checked) ==
    Called(checked.strat,
           [op |-> "check_exit_conditions", volatile |-> FALSE, signalled |-> FALSE,
            raised |-> checked.raised, current_price |-> price, position |-> position,
            signal |-> checked.signal])

\* strategy.check_exit_conditions(current_price, account_equity, position)
CallCheckExitWith ==
    /\ Len(history) < MaxExitChecks
    /\ \E price \in ExitCheckPrices, account_equity \in AccountEquityChoices,
          position \in ExitPositionChoices(strat.trade_type) :
          ExitChecked(price, position,
                      CheckExitConditions(strat, price, account_equity, position))

ExitCheckNext == CallCheckExitWith

SpecExitCheck == StrategyInit /\ [][ExitCheckNext]_vars

-----------------------------------------------------------------------------
(* Volatility classification: src/adaptive_parameters.py                     *)

\* thresholds explored: halves up to this many halves (the defaults 1.0 and
\* 5.0 are among them)
MaxThresholdHalves == 10

\* composite volatilities explored: quarters up to this many quarters
MaxVolQuarters == 32

\* AdaptiveParameterConfig: the two volatility reference points, the low one
\* not above the high one and zero among them; the scaling limits, the
\* default ones and a lower limit of zero; the base parameters and the
\* scaling modes of the dataclass defaults
AdaptiveConfigChoices ==
    {c \in [low_volatility_threshold : {Frac(k, 2) : k \in 0..MaxThresholdHalves},
            high_volatility_threshold : {Frac(k, 2) : k \in 0..MaxThresholdHalves},
            min_scaling_factor : {Zero, Frac(2, 5)},
            max_scaling_factor : {Frac(5, 2)},
            base_grid_spacing_percent : {Frac(1, 2)},
            base_order_volume : {Frac(1, 50)},
            base_take_profit_percent : {NI(5)},
            base_max_drawdown_percent : {NI(8)},
            scaling_modes : {[grid_spacing_percent |-> "direct",
                              order_volume |-> "inverse",
                              take_profit_percent |-> "direct",
                              max_drawdown_percent |-> "direct"]}] :
        NLe(c.low_volatility_threshold, c.high_volatility_threshold)}

\* the classifier with the low bound included in LOW: a faulty variant, used
\* to test the sensitivity of the low-threshold property
ClassifyVolatilityInclusive(config, volatility) ==
    IF NLe(volatility, config.low_volatility_threshold) THEN "LOW"
    ELSE IF NGt(volatility, config.high_volatility_threshold) THEN "HIGH"
    ELSE IF NGt(volatility, NMul(config.high_volatility_threshold, Frac(3, 2)))
    THEN "EXTREME"
    ELSE "NORMAL"

\* AdaptiveParameterEngine._classify_volatility
ClassifyVolatility(config, volatility) ==
    IF NLt(volatility, config.low_volatility_threshold) THEN "LOW"
    ELSE IF NGt(volatility, config.high_volatility_threshold) THEN "HIGH"
    ELSE IF NGt(volatility, NMul(config.high_volatility_threshold, Frac(3, 2)))
    THEN "EXTREME"
    ELSE "NORMAL"

\* (low_volatility_threshold + high_volatility_threshold) / 2, replaced by
\* 1.0 when it is zero
ReferenceVolatility(config) ==
    IF NAdd(config.low_volatility_threshold, config.high_volatility_threshold) = Zero
    THEN NI(1)
    ELSE NDiv(NAdd(config.low_volatility_threshold, config.high_volatility_threshold),
              NI(2))

\* the scaling factor without the safety limits: a faulty variant, used to
\* test the sensitivity of the scaling property
ScalingFactorUnclamped(config, volatility) ==
    NDiv(volatility, ReferenceVolatility(config))

\* AdaptiveParameterEngine._calculate_scaling_factor
CalculateScalingFactor(config, volatility) ==
    NMax(config.min_scaling_factor,
         NMin(config.max_scaling_factor,
              NDiv(volatility, ReferenceVolatility(config))))

\* _scale_parameter: max(0.0, scaled), for a division that did not raise
FlooredAtZero(scaled) ==
    IF scaled.raised THEN scaled ELSE Returned(NMax(Zero, scaled.value))

\* AdaptiveParameterEngine._scale_parameter: the value returned, or raised
\* for the ZeroDivisionError of base_value / 0.0
ScaleParameter(base_value, scaling_factor, mode) ==
    IF mode = "direct"
    THEN Returned(NMax(Zero, NMul(base_value, scaling_factor)))
    ELSE FlooredAtZero(PyDiv(base_value, scaling_factor))

\* scale_parameters: ScaledParameters(...), unless one of the four
\* _scale_parameter calls raised
ScaledParameters(level, factor, grid_spacing, volume, take_profit, max_drawdown) ==
    IF grid_spacing.raised \/ volume.raised \/ take_profit.raised \/ max_drawdown.raised
    THEN [raised |-> TRUE, value |-> None]
    ELSE Returned([grid_spacing_percent |-> grid_spacing.value,
                   order_volume |-> volume.value,
                   take_profit_percent |-> take_profit.value,
                   max_drawdown_percent |-> max_drawdown.value,
                   volatility_level |-> level,
                   scaling_factor |-> factor])

\* scale_parameters, from the level and the scaling factor on
ScaledBy(config, level, factor) ==
    ScaledParameters(level, factor,
        ScaleParameter(config.base_grid_spacing_percent, factor,
                       config.scaling_modes.grid_spacing_percent),
        ScaleParameter(config.base_order_volume, factor,
                       config.scaling_modes.order_volume),
        ScaleParameter(config.base_take_profit_percent, factor,
                       config.scaling_modes.take_profit_percent),
        ScaleParameter(config.base_max_drawdown_percent, factor,
                       config.scaling_modes.max_drawdown_percent))

\* AdaptiveParameterEngine.scale_parameters, from the composite volatility on
ScaleParameters(config, composite_vol) ==
    ScaledBy(config, ClassifyVolatility(config, composite_vol),
             CalculateScalingFactor(config, composite_vol))

AdaptiveInit ==
    /\ adaptive_config \in AdaptiveConfigChoices
    /\ composite_volatility = None
    /\ volatility_level = None
    /\ scaled_parameters = None
    /\ EngineOff /\ StrategyOff /\ MetricsOff /\ CoreOff /\ RatiosOff /\ VolatilityOff
    /\ OrderOff

\* _calculate_composite_volatility returns a value, never negative
MeasureVolatility ==
    /\ \E k \in 0..MaxVolQuarters : composite_volatility' = Some(Frac(k, 4))
    /\ volatility_level' = None
    /\ scaled_parameters' = None
    /\ UNCHANGED <<adaptive_config, engine_vars, strategy_vars, metrics_vars, core_vars,
                   ratio_vars, volatility_vars,
      order_vars>>

\* scale_parameters: vol_level = self._classify_volatility(composite_vol),
\* then the scaling factor and the four scaled parameters
Classify ==
    /\ composite_volatility # None
    /\ volatility_level = None
    /\ volatility_level' = Some(ClassifyVolatility(adaptive_config, composite_volatility[1]))
    /\ scaled_parameters' = Some(ScaleParameters(adaptive_config, composite_volatility[1]))
    /\ UNCHANGED <<adaptive_config, composite_volatility, engine_vars, strategy_vars,
                   metrics_vars, core_vars, ratio_vars, volatility_vars,
      order_vars>>

AdaptiveNext == MeasureVolatility \/ Classify

SpecAdaptive == AdaptiveInit /\ [][AdaptiveNext]_vars

-----------------------------------------------------------------------------
(* Profit factor: src/backtest/metrics.py                                    *)

\* longest trade list explored
MaxTrades == 3

\* profit_loss values explored: the integers from -MaxPnl to MaxPnl
MaxPnl == 2

RECURSIVE GrossProfit(_)
\* sum(t.profit_loss for t in trades if t.profit_loss > 0)
GrossProfit(ts) ==
    IF ts = <<>> THEN Zero
    ELSE NAdd(IF NGt(Head(ts), Zero) THEN Head(ts) ELSE Zero, GrossProfit(Tail(ts)))

RECURSIVE GrossLoss(_)
\* sum(abs(t.profit_loss) for t in trades if t.profit_loss < 0)
GrossLoss(ts) ==
    IF ts = <<>> THEN Zero
    ELSE NAdd(IF NLt(Head(ts), Zero) THEN NAbs(Head(ts)) ELSE Zero, GrossLoss(Tail(ts)))

\* 0.0 whenever there is no loss, as BacktestEngine._calculate_metrics leaves
\* it: a faulty variant, used to test the sensitivity of the profit-factor
\* property
ZeroWhenNoLoss(gross_profit, gross_loss) ==
    IF gross_loss = Zero THEN Returned(Zero) ELSE PyDiv(gross_profit, gross_loss)

\* calculate_profit_factor, from the two sums on
ProfitFactorOf(gross_profit, gross_loss) ==
    IF gross_loss = Zero
    THEN Returned(IF NGt(gross_profit, Zero) THEN Inf ELSE Zero)
    ELSE PyDiv(gross_profit, gross_loss)

\* MetricsCalculator.calculate_profit_factor
CalculateProfitFactor(ts) == ProfitFactorOf(GrossProfit(ts), GrossLoss(ts))

\* MetricsCalculator.calculate_win_rate
CalculateWinRate(ts) ==
    IF ts = <<>> THEN Zero
    ELSE NMul(Frac(Cardinality({i \in DOMAIN ts : NGt(ts[i], Zero)}), Len(ts)), NI(100))

MetricsInit ==
    /\ trades = <<>>
    /\ profit_factor = None
    /\ EngineOff /\ StrategyOff /\ AdaptiveOff /\ CoreOff /\ RatiosOff /\ VolatilityOff
    /\ OrderOff

\* one more TradeMetrics in the list
AddTrade ==
    /\ Len(trades) < MaxTrades
    /\ \E k \in (-MaxPnl)..MaxPnl : trades' = Append(trades, NI(k))
    /\ profit_factor' = None
    /\ UNCHANGED <<engine_vars, strategy_vars, adaptive_vars, core_vars, ratio_vars,
                   volatility_vars,
      order_vars>>

\* MetricsCalculator.calculate_profit_factor(trades)
ComputeProfitFactor ==
    /\ profit_factor = None
    /\ profit_factor' = Some(CalculateProfitFactor(trades))
    /\ UNCHANGED <<trades, engine_vars, strategy_vars, adaptive_vars, core_vars,
                   ratio_vars, volatility_vars,
      order_vars>>

MetricsNext == AddTrade \/ ComputeProfitFactor

SpecMetrics == MetricsInit /\ [][MetricsNext]_vars

-----------------------------------------------------------------------------
(* Risk-adjusted ratios: src/backtest/metrics.py.  A ratio that holds a      *)
(* square root is known by its sign and its square, which are rational.      *)

\* longest list of returns explored
MaxReturns == 3

\* periods_per_year, the default of both ratios
PeriodsPerYear == 252

\* period returns explored, in percent
ReturnChoices == {NI(-2), NI(-1), Zero, NI(1)}

\* the float 0.0
ZeroRatio == [nan |-> FALSE, sign |-> 0, square |-> Zero]

\* what numpy gives for a division by the nan that np.std returns for an
\* empty array
NanRatio == [nan |-> TRUE, sign |-> 0, square |-> Zero]

Sign(x) == IF x = Zero THEN 0 ELSE IF NLt(x, Zero) THEN -1 ELSE 1

\* (mean / std) * sqrt(periods_per_year), for a mean of total / n and a
\* standard deviation taken over m values whose variance, scaled by m^2, is
\* given
AnnualizedRatio(total, n, m, scaled_variance) ==
    [nan |-> FALSE, sign |-> Sign(total),
     square |-> NDiv(NMul(NMul(NMul(total, total), Frac(m * m, n * n)),
                          NI(PeriodsPerYear)),
                     scaled_variance)]

\* MetricsCalculator.calculate_sharpe_ratio with the default risk_free_rate 0.0
CalculateSharpeRatio(rs) ==
    IF Len(rs) < 2 THEN ZeroRatio
    ELSE IF ScaledVariance(rs, SumSeq(rs)) = Zero THEN ZeroRatio
    ELSE AnnualizedRatio(SumSeq(rs), Len(rs), Len(rs), ScaledVariance(rs, SumSeq(rs)))

\* excess_returns[excess_returns < 0], for the default target_return 0.0
DownsideReturns(rs) == SelectSeq(rs, LAMBDA r : NLt(r, Zero))

\* calculate_sortino_ratio, from the downside returns on: np.std of an empty
\* array is nan, which is not equal to 0, and the quotient is nan
SortinoOf(rs, downside_returns) ==
    IF downside_returns = <<>> THEN NanRatio
    ELSE IF ScaledVariance(downside_returns, SumSeq(downside_returns)) = Zero
    THEN ZeroRatio
    ELSE AnnualizedRatio(SumSeq(rs), Len(rs), Len(downside_returns),
                         ScaledVariance(downside_returns, SumSeq(downside_returns)))

\* MetricsCalculator.calculate_sortino_ratio
CalculateSortinoRatio(rs) ==
    IF Len(rs) < 2 THEN ZeroRatio ELSE SortinoOf(rs, DownsideReturns(rs))

\* MetricsCalculator.calculate_calmar_ratio
CalculateCalmarRatio(annual_return, max_drawdown_percent) ==
    IF max_drawdown_percent = Zero THEN Returned(Zero)
    ELSE PyDiv(annual_return, max_drawdown_percent)

RatiosInit ==
    /\ returns = <<>>
    /\ ratios = None
    /\ calmar = None
    /\ equity_curve = <<>>
    /\ drawdown = None
    /\ EngineOff /\ StrategyOff /\ AdaptiveOff /\ MetricsOff /\ CoreOff /\ VolatilityOff
    /\ OrderOff

\* the parts of the state a ratio does not touch
RatiosFrame ==
    <<engine_vars, strategy_vars, adaptive_vars, metrics_vars, core_vars, volatility_vars,
      order_vars>>

\* one more return in the list
AddReturn ==
    /\ Len(returns) < MaxReturns
    /\ \E r \in ReturnChoices : returns' = Append(returns, r)
    /\ ratios' = None
    /\ UNCHANGED <<calmar, equity_curve, drawdown, RatiosFrame>>

\* calculate_sharpe_ratio(returns) and calculate_sortino_ratio(returns)
ComputeRatios ==
    /\ ratios = None
    /\ ratios' = Some([sharpe |-> CalculateSharpeRatio(returns),
                       sortino |-> CalculateSortinoRatio(returns)])
    /\ UNCHANGED <<returns, calmar, equity_curve, drawdown, RatiosFrame>>

\* calculate_calmar_ratio(annual_return, max_drawdown_percent)
ComputeCalmar ==
    /\ \E annual_return \in ReturnChoices, max_drawdown_percent \in {Zero, NI(2)} :
          calmar' = Some([max_drawdown_percent |-> max_drawdown_percent,
                          result |-> CalculateCalmarRatio(annual_return,
                                                          max_drawdown_percent)])
    /\ UNCHANGED <<returns, ratios, equity_curve, drawdown, RatiosFrame>>

RatiosNext == AddReturn \/ ComputeRatios \/ ComputeCalmar

SpecRatios == RatiosInit /\ [][RatiosNext]_vars

-----------------------------------------------------------------------------
(* Maximum drawdown: MetricsCalculator.calculate_drawdown of                 *)
(* src/backtest/metrics.py. Indices count from 1 here and from 0 in the      *)
(* code; the duration is a difference of two indices.                        *)

\* longest equity curve explored
MaxCurve == 3

\* account equity values explored
EquityChoices == {50, 100, 150, 200}

SetMax(S) == CHOOSE m \in S : \A k \in S : k <= m

\* np.maximum.accumulate(equity_curve)
RunningMax(curve) ==
    [i \in DOMAIN curve |-> SetMax({curve[k] : k \in 1..i})]

\* (equity_curve - running_max) / running_max * 100
DrawdownSeries(curve, running_max) ==
    [i \in DOMAIN curve |-> Frac((curve[i] - running_max[i]) * 100, running_max[i])]

\* np.argmin: the first index of the smallest element
ArgMin(xs) ==
    CHOOSE i \in DOMAIN xs :
        /\ \A j \in DOMAIN xs : NLe(xs[i], xs[j])
        /\ \A j \in 1..(i - 1) : xs[j] # xs[i]

\* np.argmax: the first index of the largest element
ArgMax(ks) ==
    CHOOSE i \in DOMAIN ks :
        /\ \A j \in DOMAIN ks : ks[j] <= ks[i]
        /\ \A j \in 1..(i - 1) : ks[j] # ks[i]

\* a call of calculate_drawdown that raised ValueError
DrawdownRaised ==
    [raised |-> TRUE, value |-> [max_drawdown_percent |-> Zero, duration |-> 0]]

\* calculate_drawdown from max_dd_idx on: np.argmax raises ValueError for
\* the empty slice running_max[:0]
DrawdownFrom(running_max, series, max_dd_idx) ==
    IF max_dd_idx = 1 THEN DrawdownRaised
    ELSE Returned([max_drawdown_percent |-> NAbs(series[max_dd_idx]),
                   duration |-> max_dd_idx
                                  - ArgMax(SubSeq(running_max, 1, max_dd_idx - 1))])

DrawdownOf(running_max, series) ==
    DrawdownFrom(running_max, series, ArgMin(series))

\* MetricsCalculator.calculate_drawdown: max_drawdown_percent and
\* drawdown_duration of the tuple returned; np.min raises ValueError for an
\* empty curve
CalculateDrawdown(curve) ==
    IF curve = <<>> THEN DrawdownRaised
    ELSE DrawdownOf(RunningMax(curve), DrawdownSeries(curve, RunningMax(curve)))

DrawdownInit ==
    /\ equity_curve = <<>>
    /\ drawdown = None
    /\ returns = <<>> /\ ratios = None /\ calmar = None
    /\ EngineOff /\ StrategyOff /\ AdaptiveOff /\ MetricsOff /\ CoreOff /\ VolatilityOff
    /\ OrderOff

\* one more value in the equity curve
AddEquity ==
    /\ Len(equity_curve) < MaxCurve
    /\ \E equity \in EquityChoices : equity_curve' = Append(equity_curve, equity)
    /\ drawdown' = None
    /\ UNCHANGED <<returns, ratios, calmar, RatiosFrame>>

\* calculate_drawdown(equity_curve)
ComputeDrawdown ==
    /\ drawdown = None
    /\ drawdown' = Some(CalculateDrawdown(equity_curve))
    /\ UNCHANGED <<returns, ratios, calmar, equity_curve, RatiosFrame>>

DrawdownNext == AddEquity \/ ComputeDrawdown

SpecDrawdown == DrawdownInit /\ [][DrawdownNext]_vars

-----------------------------------------------------------------------------
(* Volatility calculator: src/volatility.py.  The measures that hold a       *)
(* square root are known by their squares, which are rational; the           *)
(* Garman-Klass measure, which holds logarithms, by whether it is zero.      *)

\* most calls of update explored
MaxUpdates == 3

\* bb_std_dev and ewma_alpha, the defaults of __init__
BbStdDev == NI(2)

EwmaAlpha == Frac(33, 100)

\* (bb_period, atr_period) of the calculators explored; the first are the
\* defaults
PeriodChoices == {<<20, 14>>, <<20, 1>>, <<2, 1>>}

\* candles fed to update
UpdateCandles ==
    {Candle(100, 100, 100, 100), Candle(50, 50, 50, 50),
     Candle(100, 200, 100, 200), Candle(100, 100, 50, 50),
     Candle(100, 200, 50, 100)}

\* VolatilityCalculator.__init__; candles stands for the four parallel
\* lists opens, highs, lows and closes
NewCalculator(bb_period, atr_period) ==
    [bb_period |-> bb_period, atr_period |-> atr_period,
     candles |-> <<>>, previous_ewma |-> None]

Closes(cs) == [i \in DOMAIN cs |-> NI(cs[i].close)]

\* the square of (bb_std_dev * std_dev) / mean * 100 over the closes given:
\* with n closes of sum total, std_dev^2 = scaled_variance / n^2 and
\* mean^2 = total^2 / n^2
BandwidthSquared(total, scaled_variance) ==
    NDiv(NMul(NMul(NMul(BbStdDev, BbStdDev), NI(10000)), scaled_variance),
         NMul(total, total))

\* the square of VolatilityCalculator._calculate_bollinger_bandwidth
CalculateBollingerBandwidth(calc) ==
    IF Len(calc.candles) < calc.bb_period THEN Zero
    ELSE BandwidthSquared(SumSeq(Closes(GetLastNCandles(calc.candles, calc.bb_period))),
                          ScaledVariance(Closes(GetLastNCandles(calc.candles, calc.bb_period)),
                                         SumSeq(Closes(GetLastNCandles(calc.candles, calc.bb_period)))))

\* whether VolatilityCalculator._calculate_garman_klass is not zero. With
\* low <= open, close <= high each term 0.5 * ln(high/low)^2 -
\* (2 ln 2 - 1) * ln(close/open)^2 is at least 0.11 * ln(high/low)^2, so
\* the sum is zero exactly when every candle of the window has high = low
GarmanKlassNonZero(calc) ==
    IF Len(calc.candles) < calc.atr_period THEN FALSE
    ELSE \E i \in DOMAIN GetLastNCandles(calc.candles, calc.atr_period) :
            GetLastNCandles(calc.candles, calc.atr_period)[i].high
                # GetLastNCandles(calc.candles, calc.atr_period)[i].low

Abs(i) == IF i < 0 THEN -i ELSE i

Max3(a, b, c) ==
    IF a >= b /\ a >= c THEN a ELSE IF b >= c THEN b ELSE c

\* tr_values of _calculate_atr
TrueRanges(cs) ==
    [i \in 1..(Len(cs) - 1) |->
        NI(Max3(cs[i + 1].high - cs[i + 1].low,
                Abs(cs[i + 1].high - cs[i].close),
                Abs(cs[i + 1].low - cs[i].close)))]

MeanOf(xs) == NDiv(SumSeq(xs), NI(Len(xs)))

\* VolatilityCalculator._calculate_atr
CalculateAtr(calc) ==
    IF Len(calc.candles) < calc.atr_period + 1 THEN Zero
    ELSE MeanOf(GetLastNCandles(TrueRanges(calc.candles), calc.atr_period))

\* np.var(returns)
Variance(rs) == NDiv(ScaledVariance(rs, SumSeq(rs)), NI(Len(rs) * Len(rs)))

\* previous_ewma after _calculate_ewma
NextEwma(calc, rs) ==
    IF Len(calc.candles) < 2 THEN calc.previous_ewma
    ELSE IF calc.previous_ewma = None THEN Some(Variance(rs))
    ELSE Some(NAdd(NMul(EwmaAlpha, NMul(rs[Len(rs)], rs[Len(rs)])),
                   NMul(NSub(NI(1), EwmaAlpha), calc.previous_ewma[1])))

\* the square of VolatilityCalculator._calculate_ewma, given the
\* previous_ewma it has stored
CalculateEwma(calc, previous_ewma) ==
    IF Len(calc.candles) < 2 THEN Zero
    ELSE NMul(NAbs(previous_ewma[1]), NI(10000))

\* the history of update: the candle appended, the oldest dropped beyond
\* max(bb_period, atr_period) + 5
History(calc, cs) ==
    IF Len(cs) > (IF calc.bb_period >= calc.atr_period
                  THEN calc.bb_period ELSE calc.atr_period) + 5
    THEN Tail(cs) ELSE cs

\* the VolatilityMeasures that update returns
MeasuresOf(calc, previous_ewma) ==
    [bollinger_bandwidth_sq |-> CalculateBollingerBandwidth(calc),
     garman_klass_nonzero |-> GarmanKlassNonZero(calc),
     atr |-> CalculateAtr(calc),
     ewma_sq |-> CalculateEwma(calc, previous_ewma),
     composite |-> Zero]

\* the calculator after update, from the one whose history is updated
WithEwma(calc, previous_ewma) == [calc EXCEPT !.previous_ewma = previous_ewma]

Updated(calc) == WithEwma(calc, NextEwma(calc, Returns(calc.candles)))

VolatilityInit ==
    /\ vol_calc = None
    /\ measures = None
    /\ fed = <<>>
    /\ EngineOff /\ StrategyOff /\ AdaptiveOff /\ MetricsOff /\ CoreOff /\ RatiosOff
    /\ OrderOff

\* the parts of the state the calculator does not touch
VolatilityFrame ==
    <<engine_vars, strategy_vars, adaptive_vars, metrics_vars, core_vars, ratio_vars,
      order_vars>>

\* VolatilityCalculator(bb_period, atr_period)
NewVolatilityCalculator ==
    /\ vol_calc = None
    /\ \E periods \in PeriodChoices :
          vol_calc' = Some(NewCalculator(periods[1], periods[2]))
    /\ UNCHANGED <<measures, fed, VolatilityFrame>>

UpdateWith(calc) ==
    /\ vol_calc' = Some(calc)
    /\ measures' = Some(MeasuresOf(calc, calc.previous_ewma))

\* VolatilityCalculator.update(high, low, close, open_price)
Update ==
    /\ vol_calc # None
    /\ Len(fed) < MaxUpdates
    /\ \E candle \in UpdateCandles :
          /\ UpdateWith(Updated([vol_calc[1] EXCEPT
                 !.candles = History(vol_calc[1], Append(vol_calc[1].candles, candle))]))
          /\ fed' = Append(fed, candle)
    /\ UNCHANGED VolatilityFrame

VolatilityNext == NewVolatilityCalculator \/ Update

SpecVolatility == VolatilityInit /\ [][VolatilityNext]_vars

-----------------------------------------------------------------------------
(* Core objects: src/core/position.py and src/core/order_executor.py         *)

\* largest number of calls made on the position object
MaxPositionCalls == 3

\* core.position.Position(...) after __post_init__: status OPEN, no exit
NewCorePosition(side, entry_price, quantity) ==
    [side |-> side, entry_price |-> entry_price, quantity |-> quantity,
     status |-> "OPEN", exit_price |-> None, closed_at |-> None, exit_fee |-> Zero]

\* core.position.Position.is_open
CoreIsOpen(pos) == pos.status = "OPEN"

\* close_position without the guard on is_open: a faulty variant, used to
\* test the sensitivity of the close-once property
close_position_unguarded(pos, exit_price, closed_at, exit_fee, now) ==
    [position |-> [pos EXCEPT !.exit_price = Some(exit_price),
                              !.closed_at = IF closed_at # None THEN closed_at
                                            ELSE Some(now),
                              !.exit_fee = exit_fee,
                              !.status = "CLOSED"],
     raised |-> FALSE]

\* core.position.Position.close_position: the position after the call and
\* whether the call raised ValueError
close_position(pos, exit_price, closed_at, exit_fee, now) ==
    IF ~CoreIsOpen(pos) THEN [position |-> pos, raised |-> TRUE]
    ELSE [position |-> [pos EXCEPT !.exit_price = Some(exit_price),
                                   !.closed_at = IF closed_at # None THEN closed_at
                                                 ELSE Some(now),
                                   !.exit_fee = exit_fee,
                                   !.status = "CLOSED"],
          raised |-> FALSE]

\* core.position.Position.liquidate_position
liquidate_position(pos, exit_price, exit_fee, now) ==
    IF ~CoreIsOpen(pos) THEN [position |-> pos, raised |-> TRUE]
    ELSE [position |-> [pos EXCEPT !.exit_price = Some(exit_price),
                                   !.closed_at = Some(now),
                                   !.exit_fee = exit_fee,
                                   !.status = "LIQUIDATED"],
          raised |-> FALSE]

\* exit prices, close times and exit fees handed to the two methods
ExitPriceChoices == {NI(50), NI(200)}

ClosedAtChoices == {None, Some(0)}

ExitFeeChoices == {Zero, NI(1)}

\* quantities and prices handed to the Order constructors
OrderNumberChoices == {NI(-1), Zero, NI(1)}

\* core.order_executor.Order.__post_init__: whether it raises ValueError
CoreOrderRejected(quantity, price, side) ==
    \/ NLe(quantity, Zero)
    \/ NLt(price, Zero)
    \/ side \notin {"BUY", "SELL"}

\* data.data_models.Order: a dataclass without __post_init__, so that no
\* construction raises
DataOrderRejected(quantity, price) == FALSE

\* the outcome of one Order(...) construction
Construction(class, quantity, price, raised) ==
    [class |-> class, quantity |-> quantity, price |-> price, raised |-> raised]

CoreInit ==
    /\ core_position \in {NewCorePosition(side, NI(100), NI(10)) : side \in {"BUY", "SELL"}}
    /\ prev_position = None
    /\ position_calls = <<>>
    /\ clock = 1
    /\ constructed = None
    /\ EngineOff /\ StrategyOff /\ AdaptiveOff /\ MetricsOff /\ RatiosOff /\ VolatilityOff
    /\ OrderOff

\* a call on the position object that had the given result
PositionCalled(op, result) ==
    /\ core_position' = result.position
    /\ prev_position' = Some(core_position)
    /\ position_calls' = Append(position_calls, [op |-> op, raised |-> result.raised])
    /\ clock' = clock + 1
    /\ UNCHANGED <<constructed, engine_vars, strategy_vars, adaptive_vars, metrics_vars,
                   ratio_vars, volatility_vars,
      order_vars>>

\* position.close_position(exit_price, closed_at, exit_fee)
CallClosePosition ==
    /\ Len(position_calls) < MaxPositionCalls
    /\ \E exit_price \in ExitPriceChoices, closed_at \in ClosedAtChoices,
          exit_fee \in ExitFeeChoices :
          PositionCalled("close_position",
                         close_position(core_position, exit_price, closed_at, exit_fee,
                                        clock))

\* position.liquidate_position(exit_price, exit_fee)
CallLiquidatePosition ==
    /\ Len(position_calls) < MaxPositionCalls
    /\ \E exit_price \in ExitPriceChoices, exit_fee \in ExitFeeChoices :
          PositionCalled("liquidate_position",
                         liquidate_position(core_position, exit_price, exit_fee, clock))

\* the parts of the state an Order construction does not touch
ConstructionFrame ==
    <<core_position, prev_position, position_calls, clock, engine_vars, strategy_vars,
      adaptive_vars, metrics_vars, ratio_vars, volatility_vars,
      order_vars>>

\* core.order_executor.Order(..., quantity=quantity, price=price)
ConstructCoreOrder ==
    /\ \E quantity \in OrderNumberChoices, price \in OrderNumberChoices,
          side \in {"BUY", "SELL"} :
          constructed' = Some(Construction("core.order_executor.Order", quantity, price,
                                           CoreOrderRejected(quantity, price, side)))
    /\ UNCHANGED ConstructionFrame

\* data.data_models.Order(..., quantity=quantity, price=price)
ConstructDataOrder ==
    /\ \E quantity \in OrderNumberChoices, price \in OrderNumberChoices :
          constructed' = Some(Construction("data.data_models.Order", quantity, price,
                                           DataOrderRejected(quantity, price)))
    /\ UNCHANGED ConstructionFrame

CoreNext ==
    \/ CallClosePosition
    \/ CallLiquidatePosition
    \/ ConstructCoreOrder
    \/ ConstructDataOrder

SpecCore == CoreInit /\ [][CoreNext]_vars

-----------------------------------------------------------------------------
(* The life cycle of an order: Order of src/core/order_executor.py           *)

\* largest number of calls made on the order object
MaxOrderCalls == 3

\* core.order_executor.Order(...) after __post_init__; updated_at counts the
\* calls that set it
NewCoreOrder(quantity, price) ==
    [quantity |-> quantity, price |-> price, status |-> "PENDING",
     filled_quantity |-> Zero, average_fill_price |-> Zero, commission |-> Zero,
     updated_at |-> 0]

\* Order.is_closed
OrderIsClosed(order) == order.status \in {"FILLED", "CANCELLED", "REJECTED", "EXPIRED"}

\* update_fill: the weighted average fill price
AverageFillPrice(order, filled_qty, fill_price, total_filled) ==
    IF NGt(order.filled_quantity, Zero)
    THEN NDiv(NAdd(NMul(order.average_fill_price, order.filled_quantity),
                   NMul(fill_price, filled_qty)),
              total_filled)
    ELSE fill_price

\* update_fill: the status after the fill
StatusAfterFill(order, total_filled) ==
    IF NGe(total_filled, order.quantity) THEN "FILLED"
    ELSE IF NGt(total_filled, Zero) THEN "PARTIALLY_FILLED"
    ELSE order.status

\* update_fill once both checks have passed
Filled(order, filled_qty, fill_price, total_filled, now) ==
    [order EXCEPT !.average_fill_price =
                      AverageFillPrice(order, filled_qty, fill_price, total_filled),
                  !.filled_quantity = total_filled,
                  !.updated_at = now,
                  !.status = StatusAfterFill(order, total_filled)]

\* update_fill, given the total it computes first: the two checks, neither
\* of which looks at the status
update_fill_total(order, filled_qty, fill_price, total_filled, now) ==
    IF NLt(filled_qty, Zero) \/ NGt(total_filled, order.quantity)
    THEN [order |-> order, raised |-> TRUE]
    ELSE [order |-> Filled(order, filled_qty, fill_price, total_filled, now),
          raised |-> FALSE]

\* Order.update_fill with the default commission 0.0: the order after the
\* call and whether the call raised ValueError
update_fill(order, filled_qty, fill_price, now) ==
    update_fill_total(order, filled_qty, fill_price,
                      NAdd(order.filled_quantity, filled_qty), now)

\* Order.cancel, Order.reject and Order.expire: the status to set is the
\* only difference (the rejection reason, kept in tags, is read by no method)
Close(order, status, now) ==
    IF OrderIsClosed(order) THEN [order |-> order, raised |-> TRUE]
    ELSE [order |-> [order EXCEPT !.status = status, !.updated_at = now],
          raised |-> FALSE]

cancel(order, now) == Close(order, "CANCELLED", now)

reject(order, now) == Close(order, "REJECTED", now)

expire(order, now) == Close(order, "EXPIRED", now)

\* quantities handed to update_fill, for an order of quantity 2
FillQuantityChoices == {NI(-1), Zero, NI(1), NI(2)}

\* prices handed to update_fill
FillPriceChoices == {NI(100), NI(200)}

OrderInit ==
    /\ core_order = Some(NewCoreOrder(NI(2), NI(100)))
    /\ prev_order = None
    /\ order_calls = <<>>
    /\ EngineOff /\ StrategyOff /\ AdaptiveOff /\ MetricsOff /\ CoreOff /\ RatiosOff
    /\ VolatilityOff

\* a call on the order object that had the given result
OrderCalled(op, result) ==
    /\ core_order' = Some(result.order)
    /\ prev_order' = core_order
    /\ order_calls' = Append(order_calls, [op |-> op, raised |-> result.raised])
    /\ UNCHANGED <<engine_vars, strategy_vars, adaptive_vars, metrics_vars, core_vars,
                   ratio_vars, volatility_vars>>

\* order.update_fill(filled_qty, fill_price)
CallUpdateFill ==
    /\ Len(order_calls) < MaxOrderCalls
    /\ \E filled_qty \in FillQuantityChoices, fill_price \in FillPriceChoices :
          OrderCalled("update_fill",
                      update_fill(core_order[1], filled_qty, fill_price,
                                  Len(order_calls) + 1))

\* order.cancel()
CallCancel ==
    /\ Len(order_calls) < MaxOrderCalls
    /\ OrderCalled("cancel", cancel(core_order[1], Len(order_calls) + 1))

\* order.reject()
CallReject ==
    /\ Len(order_calls) < MaxOrderCalls
    /\ OrderCalled("reject", reject(core_order[1], Len(order_calls) + 1))

\* order.expire()
CallExpire ==
    /\ Len(order_calls) < MaxOrderCalls
    /\ OrderCalled("expire", expire(core_order[1], Len(order_calls) + 1))

OrderNext == CallUpdateFill \/ CallCancel \/ CallReject \/ CallExpire

SpecOrder == OrderInit /\ [][OrderNext]_vars

-----------------------------------------------------------------------------
(* Properties of the engine run (specification Spec)                         *)

\* C1: after any sequence of candles processed by run_backtest, every open
\* Position of portfolio.positions has quantity equal to the sum of
\* filled_quantity over its entry_orders, and entry_price equal to the sum of
\* filled_quantity * filled_price over its entry_orders divided by that sum.
C1_EntryPriceIsFilledAverage ==
    \A sym \in DOMAIN portfolio.positions :
        LET pos == portfolio.positions[sym]
            RECURSIVE FilledQuantity(_)
            FilledQuantity(os) ==
                IF os = <<>> THEN Zero
                ELSE NAdd(Head(os).filled_quantity, FilledQuantity(Tail(os)))
            RECURSIVE FilledValue(_)
            FilledValue(os) ==
                IF os = <<>> THEN Zero
                ELSE NAdd(NMul(Head(os).filled_quantity, Head(os).filled_price[1]),
                          FilledValue(Tail(os)))
        IN  IsOpen(pos) =>
                /\ pos.quantity = FilledQuantity(pos.entry_orders)
                /\ NMul(pos.entry_price, FilledQuantity(pos.entry_orders))
                       = FilledValue(pos.entry_orders)

\* C2: at every snapshot appended to portfolio_history, total_equity equals
\* cash_balance plus the sum over the open positions of their unrealized P&L
\* at that candle's close: (close - entry_price) * quantity for LONG and
\* (entry_price - close) * quantity for SHORT.
C2_EquityIsCashPlusUnrealizedAtClose ==
    pc = "save" =>
        LET close == NI(CurrentCandle.close)
            Unrealized(pos) ==
                IF pos.trade_type = "LONG"
                THEN NMul(NSub(close, pos.entry_price), pos.quantity)
                ELSE NMul(NSub(pos.entry_price, close), pos.quantity)
        IN  TotalEquity(portfolio) =
                NAdd(portfolio.cash_balance,
                     IF Symbol \in DOMAIN portfolio.positions
                     THEN Unrealized(portfolio.positions[Symbol])
                     ELSE Zero)

\* all candles of the market data have the same close price
FlatCloses == \A i \in DOMAIN market_data : market_data[i].close = market_data[1].close

\* C6: for market data whose candles all have the same positive close and a
\* positive minimum-volatility threshold (0.1, the engine's), analyze never
\* returns an entry signal and run_backtest never generates grid orders,
\* never opens a position and never records a trade.
C6_FlatMarketNeverTrades ==
    FlatCloses =>
        /\ signals = <<>>
        /\ pending_orders = <<>> /\ filled_orders = <<>>
        /\ DOMAIN portfolio.positions = {}
        /\ portfolio.closed_trades = <<>> /\ all_trades = <<>>
        /\ \A s \in {long_strat, short_strat} :
              s # None => s[1].grid_prices = <<>> /\ ~s[1].entry_signal_generated

\* a run over flat closes whose highs and lows are not flat has reached its
\* end with both strategies enabled
C6_Witness ==
    /\ FlatCloses /\ pc = "done"
    /\ market_data[1] = Candle(100, 101, 100, 101)
    /\ long_strat # None /\ short_strat # None
    /\ Len(portfolio_history) = NumCandles

\* C7: execute_limit_order fills a LONG limit order if and only if
\* candle.low <= order.price and a SHORT limit order if and only if
\* candle.high >= order.price: after step 1 every filled order meets the
\* condition against the current candle and no remaining order does.
C7_FillsIffPriceReached ==
    pc = "fills" =>
        LET Reached(o) ==
                IF o.trade_type = "LONG"
                THEN NLe(NI(CurrentCandle.low), o.price)
                ELSE NGe(NI(CurrentCandle.high), o.price)
        IN  /\ \A i \in DOMAIN filled_orders : Reached(filled_orders[i].order)
            /\ \A i \in DOMAIN pending_orders : ~Reached(pending_orders[i])

\* a LONG order priced exactly at the candle's low has filled while a LONG
\* order priced below the low has not
C7_Witness ==
    /\ pc = "fills"
    /\ \E i \in DOMAIN filled_orders :
          /\ filled_orders[i].order.trade_type = "LONG"
          /\ filled_orders[i].order.price = NI(CurrentCandle.low)
    /\ \E i \in DOMAIN pending_orders :
          /\ pending_orders[i].trade_type = "LONG"
          /\ NLt(pending_orders[i].price, NI(CurrentCandle.low))

\* the scenario of the take-profit properties: LONG strategy only, one grid
\* level, entry order placed at the reference price 100 (initial balance
\* 10,000, default fee and slippage and take-profit 1% throughout the model)
TakeProfitScenario ==
    /\ strategy_config.enable_long /\ ~strategy_config.enable_short
    /\ strategy_config.params.grid_levels = 1
    /\ market_data[1].close = 100

\* C8 as stated: in the scenario, once the order has filled, a following
\* candle whose close is >= 101 closes the position in that candle, records a
\* Trade with pnl_percent >= 1.0 and removes the symbol from the positions.
C8_TakeProfitAtClose101 ==
    (pc = "save" /\ TakeProfitScenario) =>
        /\ \A sym \in DOMAIN portfolio.positions :
              portfolio.positions[sym].position_id[2] < candle_idx
                  => CurrentCandle.close < 101
        /\ exit_signal # None =>
              /\ DOMAIN portfolio.positions = {}
              /\ all_trades # <<>>
              /\ NGe(all_trades[Len(all_trades)].pnl_percent, NI(1))

\* C8, amended: in the scenario, once the order has filled, a following
\* candle whose close is at least 1.01 times the entry price of the position
\* (the fill price, slippage included) closes the position in that candle,
\* records a Trade with pnl_percent >= 1.0 and removes the symbol from the
\* positions.
C8_TakeProfitAtEntryPlusOnePercent ==
    (pc = "save" /\ TakeProfitScenario) =>
        /\ \A sym \in DOMAIN portfolio.positions :
              portfolio.positions[sym].position_id[2] < candle_idx
                  => NLt(NI(CurrentCandle.close),
                         NMul(portfolio.positions[sym].entry_price, Frac(101, 100)))
        /\ exit_signal # None =>
              /\ DOMAIN portfolio.positions = {}
              /\ all_trades # <<>>
              /\ NGe(all_trades[Len(all_trades)].pnl_percent, NI(1))

\* in the scenario, a position filled on an earlier candle has been closed on
\* a candle whose close is >= 101
C8_Witness ==
    /\ pc = "save" /\ TakeProfitScenario
    /\ exit_signal # None
    /\ CurrentCandle.close >= 101
    /\ all_trades # <<>>
    /\ all_trades[Len(all_trades)].entry_time < candle_idx
    /\ DOMAIN portfolio.positions = {}

-----------------------------------------------------------------------------
(* Properties of the strategy object (specification SpecStrategy)            *)

\* C3: reset() called from any reachable strategy state yields state IDLE,
\* position None, empty entry_orders and exit_orders and
\* entry_signal_generated False; and calling reset() twice in a row leaves
\* the strategy as calling it once does.
C3_ResetClearsAndIsIdempotent ==
    (history # <<>> /\ history[Len(history)].op = "reset") =>
        /\ strat.state = "IDLE"
        /\ strat.position = None
        /\ strat.entry_orders = <<>> /\ strat.exit_orders = <<>>
        /\ ~strat.entry_signal_generated
        /\ strat = Reset(prev_strat[1])
        /\ Reset(strat) = strat
        /\ (Len(history) >= 2 /\ history[Len(history) - 1].op = "reset")
               => strat = prev_strat[1]

\* reset() has been called on an ACTIVE strategy whose signal flag was set
C3_Witness ==
    /\ history # <<>> /\ history[Len(history)].op = "reset"
    /\ prev_strat[1].state = "ACTIVE"
    /\ prev_strat[1].entry_signal_generated
    /\ strat.state = "IDLE"

\* C4: after analyze has emitted an entry signal and reset() has then been
\* called, the next analyze call on market data whose trailing volatility is
\* at or above the minimum threshold emits a new entry signal (the strategy
\* not having been made ACTIVE by update_state in between).
C4_SignalAgainAfterReset ==
    \A i \in DOMAIN history, j \in DOMAIN history :
        (/\ i < j
         /\ history[i].op = "reset"
         /\ history[j].op = "analyze" /\ history[j].volatile
         /\ \A k \in (i + 1)..(j - 1) : history[k].op \notin {"analyze", "update_state"})
            => history[j].signalled

\* analyze has signalled, reset() has been called, and the next analyze has
\* signalled again
C4_Witness ==
    \E i \in DOMAIN history :
        /\ i + 2 \in DOMAIN history
        /\ history[i].op = "analyze" /\ history[i].signalled
        /\ history[i + 1].op = "reset"
        /\ history[i + 2].op = "analyze" /\ history[i + 2].signalled

\* C5: between two resets a strategy emits at most one entry signal: once
\* analyze has returned a signal, every later analyze call returns an empty
\* list until reset() is called, whatever the market data.
C5_OneSignalBetweenResets ==
    \A i \in DOMAIN history, j \in DOMAIN history :
        (i < j /\ history[i].signalled /\ history[j].signalled)
            => \E k \in (i + 1)..(j - 1) : history[k].op = "reset"

\* analyze has signalled and a later analyze, on volatile data and with no
\* reset in between, has returned nothing
C5_Witness ==
    \E i \in DOMAIN history, j \in DOMAIN history :
        /\ i < j
        /\ history[i].signalled
        /\ history[j].op = "analyze" /\ history[j].volatile /\ ~history[j].signalled
        /\ \A k \in i..j : history[k].op = "analyze"

-----------------------------------------------------------------------------
(* Properties of the classifier (specification SpecAdaptive)                 *)

\* C9: _classify_volatility returns NORMAL, not LOW, for a composite
\* volatility exactly equal to low_volatility_threshold, and LOW for every
\* value strictly below that threshold.
C9_LowThresholdIsNormal ==
    volatility_level # None =>
        /\ composite_volatility[1] = adaptive_config.low_volatility_threshold
               => volatility_level[1] = "NORMAL"
        /\ NLt(composite_volatility[1], adaptive_config.low_volatility_threshold)
               => volatility_level[1] = "LOW"

\* a volatility exactly at the low threshold has been classified
C9_Witness ==
    /\ volatility_level # None
    /\ composite_volatility[1] = adaptive_config.low_volatility_threshold
    /\ volatility_level[1] = "NORMAL"

-----------------------------------------------------------------------------
(* Properties of the profit factor (specification SpecMetrics)               *)

\* C10: calculate_profit_factor returns positive infinity for every trade
\* list with at least one winning trade and no losing trade, returns 0.0 when
\* there is neither gross profit nor gross loss (the empty list included),
\* and never raises.
C10_ProfitFactorSentinels ==
    profit_factor # None =>
        LET winners == {i \in DOMAIN trades : trades[i].w > 0}
            losers  == {i \in DOMAIN trades : trades[i].w < 0}
        IN  /\ ~profit_factor[1].raised
            /\ (winners # {} /\ losers = {}) => profit_factor[1].value = Inf
            /\ (winners = {} /\ losers = {}) => profit_factor[1].value = Zero

\* the profit factor of a list of several trades, a winner among them and no
\* loser, has been computed
C10_Witness ==
    /\ profit_factor # None
    /\ Len(trades) >= 2
    /\ \E i \in DOMAIN trades : trades[i].w > 0
    /\ \A i \in DOMAIN trades : trades[i].w >= 0
    /\ profit_factor[1].value = Inf

-----------------------------------------------------------------------------
(* Further properties of the engine run (specification Spec)                 *)

\* long_strat, short_strat = strategies[symbol], by trade type
StrategyOf(tt) == IF tt = "LONG" THEN long_strat ELSE short_strat

\* C11: whenever run_backtest closes a position on an exit signal, the
\* strategy that owned it is reset in the same candle: at the end of that
\* candle the strategy's state is IDLE and its entry_signal_generated flag is
\* False.
C11_StrategyResetOnClose ==
    (pc = "save" /\ exit_signal # None) =>
        LET owner == StrategyOf(all_trades[Len(all_trades)].trade_id[1])[1]
        IN  owner.state = "IDLE" /\ ~owner.entry_signal_generated

\* C12: every Position held in portfolio.positions during run_backtest has a
\* non-empty entry_orders list holding exactly the orders whose fills built
\* it: orders of the position's symbol whose quantities add up to the
\* position's quantity.
C12_EntryOrdersHoldTheFills ==
    \A sym \in DOMAIN portfolio.positions :
        LET pos == portfolio.positions[sym]
            RECURSIVE Quantity(_)
            Quantity(os) ==
                IF os = <<>> THEN Zero ELSE NAdd(Head(os).quantity, Quantity(Tail(os)))
        IN  /\ pos.entry_orders # <<>>
            /\ \A i \in DOMAIN pos.entry_orders : pos.entry_orders[i].symbol = sym
            /\ Quantity(pos.entry_orders) = pos.quantity

\* C13: on every candle of run_backtest in which a position is open and its
\* absolute unrealized loss at the candle close is at least
\* account_equity * max_drawdown_percent / 100, the strategy returns an exit
\* signal and the engine closes the position in that candle: no position
\* with such a loss is still open at the end of the candle.
C13_StopLossClosesPosition ==
    pc = "save" =>
        \A sym \in DOMAIN portfolio.positions :
            LET pos == portfolio.positions[sym]
                pnl == CalculateUnrealizedPnl(pos, NI(CurrentCandle.close))
                owner == StrategyOf(pos.trade_type)
            IN  owner # None =>
                    ~(/\ NLt(pnl, Zero)
                      /\ NGe(NAbs(pnl),
                             NMul(TotalEquity(portfolio),
                                  Percent(MaxDrawdownPercent(owner[1])))))

\* what an entry of portfolio_history reports when it is read: every entry
\* is a reference to the one PortfolioState object of the run
PortfolioOf(entry) == IF entry = "portfolio" THEN portfolio ELSE NewPortfolio

\* C15: each entry of portfolio_history keeps the values of the candle at
\* which it was appended: no step of a later candle changes the
\* cash_balance, open positions, closed_trades and total_fees that an earlier
\* entry reports.
C15_HistoryEntriesKeepTheirValues ==
    [][\A i \in DOMAIN portfolio_history :
          PortfolioOf(portfolio_history[i])' = PortfolioOf(portfolio_history[i])]_vars

\* C16: every position close in run_backtest appends exactly one Trade to
\* portfolio.closed_trades (and to all_trades) and removes the position from
\* portfolio.positions in the same step, so the number of recorded trades
\* grows exactly when a position is closed, and the Trades already recorded
\* never change afterwards.
C16_OneTradePerClose ==
    [][LET recorded == Len(portfolio.closed_trades)
       IN  /\ Len(portfolio'.closed_trades) \in {recorded, recorded + 1}
           /\ SubSeq(portfolio'.closed_trades, 1, recorded) = portfolio.closed_trades
           /\ all_trades' = portfolio'.closed_trades
           /\ (Len(portfolio'.closed_trades) = recorded + 1)
                  <=> (/\ DOMAIN portfolio.positions # {}
                       /\ DOMAIN portfolio'.positions = {})]_vars

\* a Trade has been recorded, its position is gone, and a later candle has
\* been processed since
C16_Witness ==
    /\ all_trades # <<>>
    /\ all_trades[1].exit_time < candle_idx
    /\ portfolio.closed_trades = all_trades
    /\ DOMAIN portfolio.positions = {}

\* C17: at the end of every candle of run_backtest, a strategy is in state
\* ACTIVE if and only if a position opened by its orders is open in the
\* portfolio (it moves IDLE -> ACTIVE at its first filled entry order and
\* ACTIVE -> IDLE in the candle in which that position closes).
C17_ActiveIffPositionOpen ==
    pc = "save" =>
        \A tt \in {"LONG", "SHORT"} :
            StrategyOf(tt) # None =>
                (StrategyOf(tt)[1].state = "ACTIVE"
                    <=> \E sym \in DOMAIN portfolio.positions :
                            /\ portfolio.positions[sym].trade_type = tt
                            /\ IsOpen(portfolio.positions[sym]))

-----------------------------------------------------------------------------
(* Further properties of the strategy object (specification SpecStrategy)    *)

\* C18: check_exit_conditions called when there is no open position (no
\* position passed and self.position None, or a position with zero quantity)
\* fails with an error instead of returning without a signal.
C18_ExitCheckWithoutPositionFails ==
    \A i \in DOMAIN history :
        (history[i].op = "check_exit_conditions" /\ history[i].no_position)
            => history[i].raised

-----------------------------------------------------------------------------
(* Further properties of the classifier (specification SpecAdaptive)         *)

\* C14: _classify_volatility returns EXTREME for every composite volatility
\* above 1.5 * high_volatility_threshold, and HIGH for every value above
\* high_volatility_threshold that is not above 1.5 * high_volatility_threshold.
C14_ExtremeAboveOneAndAHalfHigh ==
    volatility_level # None =>
        LET high == adaptive_config.high_volatility_threshold
            extreme == NMul(high, Frac(3, 2))
        IN  /\ NGt(composite_volatility[1], extreme)
                   => volatility_level[1] = "EXTREME"
            /\ (NGt(composite_volatility[1], high) /\ NLe(composite_volatility[1], extreme))
                   => volatility_level[1] = "HIGH"

-----------------------------------------------------------------------------
(* Properties of the core objects (specification SpecCore)                   *)

C20_NonPositiveOrderRejected ==
    constructed # None =>
        ((NLe(constructed[1].quantity, Zero) \/ NLe(constructed[1].price, Zero))
            => constructed[1].raised)

-----------------------------------------------------------------------------
(* Properties of scale_parameters (specification SpecAdaptive)               *)

\* C21: scale_parameters returns a ScaledParameters value without raising
\* for every composite volatility >= 0 and every configuration, thresholds
\* whose midpoint is zero included; and where an inverse-mode parameter is
\* divided by a scaling factor of zero (min_scaling_factor = 0 with zero
\* volatility) the affected value is 0.0.
C21_ScaleParametersNeverRaises ==
    scaled_parameters # None =>
        /\ ~scaled_parameters[1].raised
        /\ (/\ adaptive_config.min_scaling_factor = Zero
            /\ composite_volatility[1] = Zero)
               => scaled_parameters[1].value.order_volume = Zero

\* C29: for every composite volatility, the scaling factor of the
\* ScaledParameters returned is the volatility divided by the midpoint of the
\* low and high thresholds, clamped into [min_scaling_factor,
\* max_scaling_factor]; each direct-mode parameter equals base * factor, each
\* inverse-mode parameter equals base / factor, and no scaled parameter is
\* negative.
C29_ScalingIsClampedRatio ==
    (scaled_parameters # None /\ ~scaled_parameters[1].raised) =>
        LET config   == adaptive_config
            scaled   == scaled_parameters[1].value
            factor   == scaled.scaling_factor
            midpoint == NDiv(NAdd(config.low_volatility_threshold,
                                  config.high_volatility_threshold), NI(2))
            ratio    == NDiv(composite_volatility[1], midpoint)
            Base(name) ==
                CASE name = "grid_spacing_percent" -> config.base_grid_spacing_percent
                  [] name = "order_volume" -> config.base_order_volume
                  [] name = "take_profit_percent" -> config.base_take_profit_percent
                  [] name = "max_drawdown_percent" -> config.base_max_drawdown_percent
        IN  /\ midpoint # Zero =>
                /\ NLe(config.min_scaling_factor, factor)
                /\ NLe(factor, config.max_scaling_factor)
                /\ factor = IF NLt(ratio, config.min_scaling_factor)
                            THEN config.min_scaling_factor
                            ELSE IF NGt(ratio, config.max_scaling_factor)
                            THEN config.max_scaling_factor
                            ELSE ratio
            /\ \A name \in DOMAIN config.scaling_modes :
                  /\ NGe(scaled[name], Zero)
                  /\ config.scaling_modes[name] = "direct"
                        => scaled[name] = NMul(Base(name), factor)
                  /\ config.scaling_modes[name] = "inverse"
                        => NMul(scaled[name], factor) = Base(name)

\* parameters have been scaled at the lower limit, at the upper limit and
\* strictly between the two: here, strictly between, with a factor other
\* than 1
C29_Witness ==
    /\ scaled_parameters # None /\ ~scaled_parameters[1].raised
    /\ NLt(adaptive_config.min_scaling_factor, scaled_parameters[1].value.scaling_factor)
    /\ NLt(scaled_parameters[1].value.scaling_factor, adaptive_config.max_scaling_factor)
    /\ scaled_parameters[1].value.scaling_factor # NI(1)
    /\ adaptive_config.low_volatility_threshold = NI(1)
    /\ adaptive_config.high_volatility_threshold = NI(5)
    /\ scaled_parameters[1].value.order_volume # adaptive_config.base_order_volume

-----------------------------------------------------------------------------
(* Properties of the metrics of a run (specification Spec)                   *)

\* C25: the win rate and the profit factor of the BacktestMetrics returned
\* by run_backtest equal MetricsCalculator.calculate_win_rate and
\* MetricsCalculator.calculate_profit_factor applied to the same closed-trade
\* list, each trade's pnl_after_commission taken as its profit_loss, for
\* every trade list, one with no losing trade included.
C25_EngineMetricsMatchCalculator ==
    metrics # None =>
        LET profit_loss == [i \in DOMAIN all_trades |-> all_trades[i].pnl_after_commission]
        IN  /\ metrics[1].win_rate = CalculateWinRate(profit_loss)
            /\ Returned(metrics[1].profit_factor) = CalculateProfitFactor(profit_loss)

\* C24: in every candle processed by run_backtest, each strategy's
\* volatility measures and ScaledParameters are recomputed once from that
\* candle's OHLC before that candle's entry analysis, grid generation and
\* exit check, so that during these steps every strategy of the run holds
\* the parameters scaled for the candle (current_scaled is set).
C24_ParametersScaledBeforeEachCandle ==
    pc \in {"long", "short", "exit"} =>
        \A s \in {long_strat, short_strat} :
            s # None => s[1].current_scaled # None

\* C26: check_exit_conditions returns an exit signal whenever the open
\* position's unrealized P&L percent relative to its weighted-average entry
\* price is at or above the take-profit percent in effect, and run_backtest
\* closes the position on the first candle close at which this holds: after
\* the exit step of a candle no position is left whose P&L percent at that
\* candle's close reaches the take profit, and a take-profit exit has
\* removed the position and recorded its trade in that candle.
C26_TakeProfitClosesAtFirstClose ==
    pc = "save" =>
        LET close == NI(CurrentCandle.close)
            InEffect(s) == IF s.current_scaled # None
                           THEN s.current_scaled[1].take_profit_percent
                           ELSE s.params.take_profit_percent
            PnlPercent(pos) ==
                IF pos.trade_type = "LONG"
                THEN NMul(NDiv(NSub(close, pos.entry_price), pos.entry_price), NI(100))
                ELSE NMul(NDiv(NSub(pos.entry_price, close), pos.entry_price), NI(100))
        IN  /\ \A sym \in DOMAIN portfolio.positions :
                LET pos == portfolio.positions[sym]
                IN  NLt(PnlPercent(pos), InEffect(StrategyOf(pos.trade_type)[1]))
            /\ (exit_signal # None /\ exit_signal[1].rationale = "take_profit") =>
                /\ DOMAIN portfolio.positions = {}
                /\ all_trades # <<>>
                /\ all_trades[Len(all_trades)].exit_time = Timestamp(candle_idx)
                /\ NGe(all_trades[Len(all_trades)].pnl_percent,
                       InEffect(StrategyOf(all_trades[Len(all_trades)].trade_id[1])[1]))

\* a SHORT position that stayed open over the close of the candle it was
\* filled in has been closed by its take profit at a later close
C26_Witness ==
    /\ pc = "save"
    /\ exit_signal # None /\ exit_signal[1].rationale = "take_profit"
    /\ all_trades # <<>>
    /\ all_trades[Len(all_trades)].trade_id[1] = "SHORT"
    /\ all_trades[Len(all_trades)].entry_time < all_trades[Len(all_trades)].exit_time
    /\ DOMAIN portfolio.positions = {}

\* C27: for every order and candle, execute_limit_order returns either
\* (0, 0) or the whole order quantity, never a partial quantity; when it
\* fills, the fill price is min(order.price, candle.close) * (1 + slippage)
\* for LONG and max(order.price, candle.close) * (1 - slippage) for SHORT, so
\* slippage never improves the price for the trader.
C27_WholeFillsAtSlippedPrice ==
    pc = "fills" =>
        LET close == NI(CurrentCandle.close)
            slip  == Frac(5, 10000)
            Best(o) == IF o.trade_type = "LONG"
                       THEN (IF NLe(o.price, close) THEN o.price ELSE close)
                       ELSE (IF NGe(o.price, close) THEN o.price ELSE close)
        IN  /\ \A i \in DOMAIN filled_orders :
                LET f == filled_orders[i]
                IN  /\ f.filled_qty = f.order.quantity
                    /\ ExecuteLimitOrder(f.order, CurrentCandle)
                           = <<f.filled_qty, f.fill_price>>
                    /\ f.order.trade_type = "LONG" =>
                          /\ f.fill_price = NMul(Best(f.order), NAdd(NI(1), slip))
                          /\ NGe(f.fill_price, Best(f.order))
                    /\ f.order.trade_type = "SHORT" =>
                          /\ f.fill_price = NMul(Best(f.order), NSub(NI(1), slip))
                          /\ NLe(f.fill_price, Best(f.order))
            /\ \A i \in DOMAIN pending_orders :
                  ExecuteLimitOrder(pending_orders[i], CurrentCandle) = <<Zero, Zero>>

\* a LONG order has filled below its limit price, at the close of the candle
\* with slippage added, while another order has stayed pending
C27_Witness ==
    /\ pc = "fills"
    /\ pending_orders # <<>>
    /\ \E i \in DOMAIN filled_orders :
          /\ filled_orders[i].order.trade_type = "LONG"
          /\ NLt(NI(CurrentCandle.close), filled_orders[i].order.price)
          /\ NGt(filled_orders[i].fill_price, NI(CurrentCandle.close))
          /\ NLt(filled_orders[i].fill_price, filled_orders[i].order.price)

\* C28: generate_grid_orders returns exactly grid_levels LIMIT orders in the
\* strategy's direction; the order at level k (0 <= k < grid_levels) has
\* price entry_price * (1 - spacing * k) for LONG and entry_price *
\* (1 + spacing * k) for SHORT, every order has quantity position_size /
\* grid_levels, and the quantities sum to position_size.  Checked on the
\* orders that an entry step of run_backtest appends to the pending orders.
C28_GridOrdersPerLevel ==
    [][(pc \in {"long", "short"} /\ signals' # <<>>) =>
        LET s       == IF pc = "long" THEN long_strat[1] ELSE short_strat[1]
            levels  == s.params.grid_levels
            spacing == NDiv(s.params.grid_spacing_percent, NI(100))
            entry   == NI(CurrentCandle.close)
            size    == NDiv(NMul(NI(InitialBalance), Frac(1, 10)), entry)
            orders  == SubSeq(pending_orders', Len(pending_orders) + 1, Len(pending_orders'))
            RECURSIVE Quantity(_)
            Quantity(os) == IF os = <<>> THEN Zero
                            ELSE NAdd(Head(os).quantity, Quantity(Tail(os)))
        IN  /\ Len(orders) = levels
            /\ \A i \in DOMAIN orders :
                  /\ orders[i].order_type = "LIMIT"
                  /\ orders[i].trade_type = s.trade_type
                  /\ orders[i].quantity = NDiv(size, NI(levels))
                  /\ orders[i].price =
                        IF s.trade_type = "LONG"
                        THEN NMul(entry, NSub(NI(1), NMul(spacing, NI(i - 1))))
                        ELSE NMul(entry, NAdd(NI(1), NMul(spacing, NI(i - 1))))
            /\ Quantity(orders) = size
    ]_vars

\* a SHORT strategy has generated a grid of at least two levels, the second
\* order priced above the first
C28_Witness ==
    /\ pc = "exit"
    /\ signals # <<>>
    /\ short_strat # None /\ short_strat[1].params.grid_levels >= 2
    /\ Len(pending_orders) >= 2
    /\ pending_orders[Len(pending_orders)].trade_type = "SHORT"
    /\ NGt(pending_orders[Len(pending_orders)].price,
           pending_orders[Len(pending_orders) - 1].price)
    /\ pending_orders[Len(pending_orders) - 1].trade_type = "SHORT"

\* C30: in run_backtest, grid orders generated on candle i are first tested
\* for a fill against candle i+1, never against candle i (they are appended
\* after the matching step of their candle, and orders are matched once per
\* candle, at its start); an order that fills is removed from the pending set
\* in that candle and is never tested or filled again, and an order that does
\* not fill stays in the pending set unchanged.
C30_OrdersMatchedFromNextCandle ==
    [][LET Range(q) == {q[i] : i \in DOMAIN q}
           Reached(o) == IF o.trade_type = "LONG"
                         THEN NLe(NI(CurrentCandle.low), o.price)
                         ELSE NGe(NI(CurrentCandle.high), o.price)
       IN  /\ pc = "match" =>
               /\ Len(filled_orders') + Len(pending_orders') = Len(pending_orders)
               /\ \A o \in Range(pending_orders) :
                     IF Reached(o)
                     THEN /\ o \notin Range(pending_orders')
                          /\ \E i \in DOMAIN filled_orders' : filled_orders'[i].order = o
                     ELSE /\ o \in Range(pending_orders')
                          /\ \A i \in DOMAIN filled_orders' : filled_orders'[i].order # o
               /\ \A i \in DOMAIN pending_orders', j \in DOMAIN pending_orders' :
                     i < j => \E k \in DOMAIN pending_orders, l \in DOMAIN pending_orders :
                                 /\ k < l
                                 /\ pending_orders[k] = pending_orders'[i]
                                 /\ pending_orders[l] = pending_orders'[j]
           /\ pc # "match" =>
               /\ filled_orders' = filled_orders
               /\ Len(pending_orders') >= Len(pending_orders)
               /\ SubSeq(pending_orders', 1, Len(pending_orders)) = pending_orders
               /\ \A o \in Range(pending_orders') \ Range(pending_orders) :
                     \A i \in DOMAIN filled_orders : filled_orders[i].order # o
           /\ pending_orders' # pending_orders =>
               /\ pc \in {"match", "long", "short"}
               /\ candle_idx' = candle_idx
           /\ pc' = "match" => (pc = "save" /\ candle_idx' = candle_idx + 1)
    ]_vars

\* of two orders generated on one candle and tested on the next, one has
\* filled and left the pending set while the other has stayed pending
C30_Witness ==
    /\ pc = "fills" /\ candle_idx = 1
    /\ Len(filled_orders) = 1 /\ Len(pending_orders) = 1
    /\ filled_orders[1].order.trade_type = pending_orders[1].trade_type
    /\ filled_orders[1].order.order_id[2] # pending_orders[1].order_id[2]

-----------------------------------------------------------------------------
(* Properties of the risk-adjusted ratios (specification SpecRatios)         *)

\* C22: calculate_sharpe_ratio and calculate_sortino_ratio return exactly 0.0
\* for fewer than two returns and for a zero standard deviation (for Sortino
\* the downside deviation, a series without a negative return included),
\* calculate_calmar_ratio returns 0.0 for a zero max drawdown, and none of
\* them raises or returns a non-number.
C22_RatiosZeroOnDegenerateInput ==
    /\ ratios # None =>
          LET downside == DownsideReturns(returns) IN
          /\ ~ratios[1].sharpe.nan
          /\ ~ratios[1].sortino.nan
          /\ Len(returns) < 2 =>
                ratios[1].sharpe = ZeroRatio /\ ratios[1].sortino = ZeroRatio
          /\ ScaledVariance(returns, SumSeq(returns)) = Zero =>
                ratios[1].sharpe = ZeroRatio
          /\ (downside = <<>> \/ ScaledVariance(downside, SumSeq(downside)) = Zero) =>
                ratios[1].sortino = ZeroRatio
    /\ calmar # None =>
          /\ ~calmar[1].result.raised
          /\ calmar[1].max_drawdown_percent = Zero => calmar[1].result.value = Zero

-----------------------------------------------------------------------------
(* Properties of the volatility calculator (specification SpecVolatility)    *)

\* C23: the VolatilityMeasures that update returns carries a composite equal
\* to the weighted sum of its four measures, the ATR taken times 100: the
\* composite is not zero whenever one of the four measures is not zero, and
\* it is 0.25 * 100 * atr when the ATR is the only measure that is not zero.
C23_CompositeIsWeightedSum ==
    measures # None =>
        LET m == measures[1]
            others_zero == /\ m.bollinger_bandwidth_sq = Zero
                           /\ ~m.garman_klass_nonzero
                           /\ m.ewma_sq = Zero
        IN  /\ (~others_zero \/ m.atr # Zero) => m.composite # Zero
            /\ others_zero => m.composite = NMul(NI(25), m.atr)

\* C31: after any sequence of update calls the four buffers (one list of
\* candles here) have the same length, which never exceeds the largest
\* lookback window, max(bb_period, atr_period), and they hold the most
\* recent candles in arrival order.
C31_HistoryBoundedByLargestWindow ==
    vol_calc # None =>
        LET calc == vol_calc[1]
            window == IF calc.bb_period >= calc.atr_period
                      THEN calc.bb_period ELSE calc.atr_period
        IN  /\ Len(calc.candles) <= window
            /\ calc.candles = GetLastNCandles(fed, Len(calc.candles))

-----------------------------------------------------------------------------
(* Properties of calculate_drawdown (specification SpecDrawdown)             *)

\* C32: for every non-empty equity curve of positive values
\* calculate_drawdown returns the largest peak-to-trough percentage decline
\* and the number of candles from that peak to that trough; for a curve
\* that never declines, a single point included, it returns a drawdown of 0
\* and a duration of 0 without raising.
C32_DrawdownIsLargestDecline ==
    (drawdown # None /\ equity_curve # <<>>) =>
        LET n == Len(equity_curve)
            Decline(i, j) ==
                Frac((equity_curve[i] - equity_curve[j]) * 100, equity_curve[i])
            Pairs == {p \in (1..n) \X (1..n) : p[1] <= p[2]}
            largest == CHOOSE d \in {Decline(p[1], p[2]) : p \in Pairs} :
                          \A p \in Pairs : NLe(Decline(p[1], p[2]), d)
            result == drawdown[1]
        IN  /\ ~result.raised
            /\ result.value.max_drawdown_percent = largest
            /\ largest = Zero => result.value.duration = 0
            /\ largest # Zero =>
                  \E p \in Pairs :
                      /\ Decline(p[1], p[2]) = largest
                      /\ result.value.duration = p[2] - p[1]

-----------------------------------------------------------------------------
(* Properties of a run over several candles (specification Spec)             *)

\* C33: the entry decision run_backtest takes at candle i depends only on
\* candles 0..i: from the state the run has reached before step 3 of candle
\* i, every series that agrees with the run's on candles 0..i gives the
\* same signals, whatever its later candles are.
C33_EntryDecisionUsesOnlyPastCandles ==
    LET Agreeing ==
            {md \in [1..NumCandles -> EngineCandleChoices] :
                \A k \in 1..(candle_idx + 1) : md[k] = market_data[k]}
        SameDecision(s) ==
            (s # None /\ s[1].position = None) =>
                \A md \in Agreeing :
                    Analyze(s[1], md).signals = Analyze(s[1], market_data).signals
    IN  /\ pc = "long" => SameDecision(long_strat)
        /\ pc = "short" => SameDecision(short_strat)

\* C34: after each run_backtest call returns, get_trades() holds exactly
\* the trades closed during that run, the final portfolio's closed_trades,
\* and get_portfolio_history() has exactly one entry per candle processed
\* in that run, also when run_backtest is called more than once on the same
\* engine (specification SpecRuns).
C34_TradesAndHistoryOfTheRun ==
    pc = "done" =>
        /\ all_trades = portfolio.closed_trades
        /\ Len(portfolio_history) = Len(market_data)

\* C35: with both strategies enabled, every fill merged into the open
\* position of the symbol has the direction of that position: the fills
\* that step 2 is about to process all have the trade type of the position
\* they are averaged into, the one already open or the one the first of
\* them opens.
C35_FillsHaveThePositionsDirection ==
    (pc = "fills" /\ filled_orders # <<>>) =>
        LET direction == IF Symbol \in DOMAIN portfolio.positions
                         THEN portfolio.positions[Symbol].trade_type
                         ELSE filled_orders[1].order.trade_type
        IN  \A i \in DOMAIN filled_orders :
                filled_orders[i].order.trade_type = direction

\* C36: after a position is closed in run_backtest, the grid orders still
\* pending at that moment are never filled on a later candle: no order that
\* step 1 fills was pending when the last position was closed.
C36_StaleGridOrdersNeverFill ==
    pc = "fills" =>
        \A j \in DOMAIN filled_orders, i \in DOMAIN closed_pending :
            filled_orders[j].order # closed_pending[i]

\* C37: at the end of every candle of run_backtest, cash_balance equals
\* initial_balance - total_fees - (sum over open positions of entry_price *
\* quantity) + (sum over closed trades of pnl), for LONG and for SHORT
\* positions alike.
C37_CashBalanceAccounting ==
    pc = "save" =>
        LET invested == IF Symbol \in DOMAIN portfolio.positions
                        THEN NMul(portfolio.positions[Symbol].entry_price,
                                  portfolio.positions[Symbol].quantity)
                        ELSE Zero
            realized == SumSeq([i \in DOMAIN portfolio.closed_trades |->
                                   portfolio.closed_trades[i].pnl])
        IN  portfolio.cash_balance =
                NAdd(NSub(NSub(NI(InitialBalance), portfolio.total_fees), invested),
                     realized)

\* C38: cash_balance is never negative at any point of run_backtest, for
\* every sequence of valid candles and every valid configuration.
C38_CashBalanceNeverNegative == NGe(portfolio.cash_balance, Zero)

-----------------------------------------------------------------------------
(* Properties of the order life cycle (specification SpecOrder)              *)

\* C39: once the status of an Order is FILLED, CANCELLED, REJECTED or
\* EXPIRED it is terminal: no later update_fill, cancel, reject or expire
\* call changes its status or its filled_quantity; and filled_quantity
\* never exceeds quantity.
C39_ClosedOrderIsTerminal ==
    core_order # None =>
        /\ NLe(core_order[1].filled_quantity, core_order[1].quantity)
        /\ (prev_order # None /\ OrderIsClosed(prev_order[1])) =>
              /\ core_order[1].status = prev_order[1].status
              /\ core_order[1].filled_quantity = prev_order[1].filled_quantity

-----------------------------------------------------------------------------
(* Properties of the stop-loss branch (specification SpecExitCheck)          *)

\* C40: the stop-loss branch of check_exit_conditions returns an exit signal
\* only when the unrealized P&L of the position is negative: a position in
\* profit below the take-profit level is never closed by it.
C40_StopLossOnlyOnALoss ==
    history # <<>> =>
        LET call == history[Len(history)] IN
        (call.signal # None /\ call.signal[1].rationale = "stop_loss") =>
            NLt(CalculateUnrealizedPnl(call.position[1], call.current_price), Zero)

====
